---- MODULE Spec2Model ----
(***************************************************************************)
(* Model of the RAG question-answering core of pseg-rag-cicd-web:          *)
(*   - RAGService.answer_question (rewrite -> search -> gate -> generate   *)
(*     -> cite), backend/app/services/rag_service.py                       *)
(*   - check_retrieval_quality, backend/app/utils/thresholds.py            *)
(*   - ChunkService, backend/app/services/chunk_service.py                 *)
(*   - SearchService.index_chunks, backend/app/services/search_service.py  *)
(* Text is a sequence of one-character strings.  Scores and the score      *)
(* threshold are integers on a common scale.                               *)
(***************************************************************************)
EXTENDS Integers, Sequences, FiniteSets, TLC

----------------------------------------------------------------------------
(* Bounds of the model *)

\* longest result list the index returns to one query
MaxChunks == 2
\* largest relevance score on the integer scale
MaxScore == 1
\* longest conversation history of a request
MaxHistory == 1

----------------------------------------------------------------------------
(* Text helpers: Python str operations on sequences of characters *)

Min(S) == CHOOSE x \in S : \A y \in S : x <= y
Max(S) == CHOOSE x \in S : \A y \in S : x >= y

\* the characters str.strip() removes
IsSpace(c) == c \in {" ", "\n", "\t"}

\* text[:n]
Take(text, n) == SubSeq(text, 1, IF n < Len(text) THEN n ELSE Len(text))

\* text[n:]  (n is a 0-based offset)
Drop(text, n) == SubSeq(text, n + 1, Len(text))

\* str.strip()
Strip(text) ==
    LET keep == {i \in 1..Len(text) : ~IsSpace(text[i])}
    IN  IF keep = {} THEN <<>> ELSE SubSeq(text, Min(keep), Max(keep))

\* str.rstrip()
RStrip(text) ==
    LET keep == {i \in 1..Len(text) : ~IsSpace(text[i])}
    IN  IF keep = {} THEN <<>> ELSE SubSeq(text, 1, Max(keep))

\* str.rfind(sep): 0-based offset of the last occurrence of sep, -1 if none
RFind(text, sep) ==
    LET hits == {i \in 0..(Len(text) - Len(sep)) :
                    SubSeq(text, i + 1, i + Len(sep)) = sep}
    IN  IF hits = {} THEN -1 ELSE Max(hits)

\* truncate_text cutting at max_length, leaving no room for the suffix
TruncateText_no_suffix_room(text, max_length, suffix) ==
    IF Len(text) = 0 \/ Len(text) <= max_length
    THEN text
    ELSE LET truncated  == Take(text, max_length)
             last_space == RFind(truncated, <<" ">>)
             cut        == IF 10 * last_space > 7 * max_length
                           THEN Take(truncated, last_space)
                           ELSE truncated
         IN  RStrip(cut) \o suffix

\* truncate_text(text, max_length, suffix)
TruncateText(text, max_length, suffix) ==
    IF Len(text) = 0 \/ Len(text) <= max_length
    THEN text
    ELSE LET truncated  == Take(text, max_length - Len(suffix))
             last_space == RFind(truncated, <<" ">>)
             cut        == IF 10 * last_space > 7 * max_length
                           THEN Take(truncated, last_space)
                           ELSE truncated
         IN  RStrip(cut) \o suffix

----------------------------------------------------------------------------
(* Retrieval gate: backend/app/utils/thresholds.py *)

\* stands for Python None in GatingResult.top_score
NoScore == -1

RECURSIVE MaxScoreOf(_)
\* max(chunk.score for chunk in chunks), chunks non-empty
MaxScoreOf(chunks) ==
    IF Len(chunks) = 1 THEN chunks[1].score
    ELSE LET rest == MaxScoreOf(Tail(chunks))
         IN  IF chunks[1].score >= rest THEN chunks[1].score ELSE rest

\* check_retrieval_quality with the count left at its default in the
\* below-threshold branch
check_retrieval_quality_uncounted(chunks, score_threshold, strict_grounding) ==
    IF Len(chunks) = 0
    THEN [passed |-> FALSE, reason |-> "No documents retrieved from search",
          top_score |-> NoScore, num_chunks |-> 0]
    ELSE LET top_score == MaxScoreOf(chunks)
         IN  IF strict_grounding /\ top_score < score_threshold
             THEN [passed |-> FALSE, reason |-> "Top retrieval score below threshold",
                   top_score |-> top_score, num_chunks |-> 0]
             ELSE [passed |-> TRUE, reason |-> "Retrieval quality check passed",
                   top_score |-> top_score, num_chunks |-> Len(chunks)]

\* check_retrieval_quality with the threshold comparison exclusive
check_retrieval_quality_exclusive(chunks, score_threshold, strict_grounding) ==
    IF Len(chunks) = 0
    THEN [passed |-> FALSE, reason |-> "No documents retrieved from search",
          top_score |-> NoScore, num_chunks |-> 0]
    ELSE LET top_score == MaxScoreOf(chunks)
         IN  IF strict_grounding /\ top_score <= score_threshold
             THEN [passed |-> FALSE, reason |-> "Top retrieval score below threshold",
                   top_score |-> top_score, num_chunks |-> Len(chunks)]
             ELSE [passed |-> TRUE, reason |-> "Retrieval quality check passed",
                   top_score |-> top_score, num_chunks |-> Len(chunks)]

check_retrieval_quality(chunks, score_threshold, strict_grounding) ==
    IF Len(chunks) = 0
    THEN [passed |-> FALSE, reason |-> "No documents retrieved from search",
          top_score |-> NoScore, num_chunks |-> 0]
    ELSE LET top_score == MaxScoreOf(chunks)
         IN  IF strict_grounding /\ top_score < score_threshold
             THEN [passed |-> FALSE, reason |-> "Top retrieval score below threshold",
                   top_score |-> top_score, num_chunks |-> Len(chunks)]
             ELSE [passed |-> TRUE, reason |-> "Retrieval quality check passed",
                   top_score |-> top_score, num_chunks |-> Len(chunks)]

OUT_OF_CONTEXT_MESSAGE ==
    "Your question is outside the provided documents. I can't answer it from the PDFs I have. Please ask a question related to the content in the uploaded documents."

SEARCH_ERROR_MESSAGE ==
    "An error occurred while searching the documents. Please try again."

GENERATION_ERROR_MESSAGE ==
    "An error occurred while generating the response. Please try again."

----------------------------------------------------------------------------
(* Data of the chat request path *)

\* longest question of a request (ChatRequest.question has min_length 1)
MaxQuestionLen == 1
\* longest text the rewrite completion returns
MaxRewriteLen == 1
\* stop_after_attempt(3) on EmbedService.embed_text
MAX_EMBED_ATTEMPTS == 3
\* stands for Python None in ChunkMetadata.page_number (pages are 1-indexed)
NoPage == 0
\* settings.score_threshold on the integer scale of the scores: the score 0
\* is below it, 1 equal to it, any larger one above it
SCORE_THRESHOLD == 1
\* truncate_text(chunk.content, max_length=200) in _build_citations
SNIPPET_MAX_LENGTH == 200

TextChars == {"a", " "}

\* all texts over TextChars of length lo..hi
TextsOfLen(lo, hi) == UNION {[1..n -> TextChars] : n \in lo..hi}

Questions == TextsOfLen(1, MaxQuestionLen)

\* ConversationMessage(role, content)
HistoryMessages == {[role |-> "user", content |-> <<"a">>]}

\* ChatRequest.conversation_history: Optional[List[ConversationMessage]],
\* absent or a list of up to MaxHistory messages
Histories ==
    {[present |-> FALSE, msgs |-> <<>>]} \cup
    {[present |-> TRUE, msgs |-> m] :
        m \in UNION {[1..n -> HistoryMessages] : n \in 0..MaxHistory}}

\* what chat.completions.create does in _rewrite_query_with_context:
\* raises, or returns a message whose content is None or a text
RewriteOutcomes ==
    {[raises |-> TRUE, content_none |-> FALSE, text |-> <<>>],
     [raises |-> FALSE, content_none |-> TRUE, text |-> <<>>]} \cup
    {[raises |-> FALSE, content_none |-> FALSE, text |-> t] :
        t \in TextsOfLen(0, MaxRewriteLen)}

\* what chat.completions.create does in _generate_response
GenOutcomes ==
    {[raises |-> TRUE, content_none |-> FALSE, text |-> ""],
     [raises |-> FALSE, content_none |-> TRUE, text |-> ""]} \cup
    {[raises |-> FALSE, content_none |-> FALSE, text |-> t] :
        t \in {"", "generated answer"}}

\* the URL stored with a chunk at index time / the URL generate_sas_url
\* returns: the signed URL, or the unsigned blob URL when signing failed
StoredUrl(file) == [base |-> "stored", file |-> file, page_anchor |-> NoPage]
SasUrl(file)    == [base |-> "sas", file |-> file, page_anchor |-> NoPage]

\* the records of the index: (chunk_id, source_file, page_number, content)
IndexRecords ==
    {[chunk_id |-> "c1", source_file |-> "a.pdf", page_number |-> 1,
      content |-> <<"x">>],
     [chunk_id |-> "c2", source_file |-> "a.pdf", page_number |-> 1,
      content |-> <<"y">>],
     [chunk_id |-> "c3", source_file |-> "b.pdf", page_number |-> NoPage,
      content |-> <<"z">>]}

Scores == 0..MaxScore

\* RetrievedChunk as built by SearchService.search from one result
RetrievedChunk(rec, score) ==
    [content |-> rec.content, score |-> score,
     metadata |-> [source_file |-> rec.source_file,
                   page_number |-> rec.page_number,
                   chunk_id |-> rec.chunk_id,
                   source_url |-> StoredUrl(rec.source_file)]]

RetrievedChunks == {RetrievedChunk(r, s) : r \in IndexRecords, s \in Scores}

\* the result lists of one index query: at most MaxChunks distinct records,
\* ordered by descending score
ChunkLists ==
    UNION {{cs \in [1..n -> RetrievedChunks] :
               \A i, j \in 1..n :
                  /\ i # j => cs[i].metadata.chunk_id # cs[j].metadata.chunk_id
                  /\ i < j => cs[i].score >= cs[j].score} :
           n \in 0..MaxChunks}

ChatResponse(answer, citations, out_of_context, retrieved_chunks_count) ==
    [answer |-> answer, citations |-> citations,
     out_of_context |-> out_of_context,
     retrieved_chunks_count |-> retrieved_chunks_count]

NoResponse == ChatResponse("", <<>>, FALSE, 0)

\* the chunk_ids of a list of retrieved chunks
ChunkIds(cs) == [i \in 1..Len(cs) |-> cs[i].metadata.chunk_id]

\* an entry of the log of steps: the step, whether it returned normally
\* (for the gate: passed), the query text, the evidence list and the
\* completion text it was given or gave
Call(name, ok, query, evidence, reply) ==
    [call |-> name, ok |-> ok, query |-> query, evidence |-> evidence,
     reply |-> reply]

NoGating == [passed |-> FALSE, reason |-> "", top_score |-> NoScore, num_chunks |-> 0]

----------------------------------------------------------------------------
(* ChunkService: backend/app/services/chunk_service.py *)

\* most pages of a document
MaxPages == 1
\* most iterations of the window loop of _chunk_text that are followed
MaxWindows == 12
\* most calls of chunk_document on one ChunkService
MaxRuns == 2

\* ChunkService.__init__ defaults
DEFAULT_CHUNK_SIZE == 1000
DEFAULT_CHUNK_OVERLAP == 150
DEFAULT_MIN_CHUNK_SIZE == 50
\* content[:50] in _generate_chunk_id
ID_CONTENT_PREFIX == 50

\* the (chunk_size, chunk_overlap, min_chunk_size) a ChunkService is built with
ChunkParams ==
    {[chunk_size |-> DEFAULT_CHUNK_SIZE, chunk_overlap |-> DEFAULT_CHUNK_OVERLAP,
      min_chunk_size |-> DEFAULT_MIN_CHUNK_SIZE],
     [chunk_size |-> 6, chunk_overlap |-> 1, min_chunk_size |-> 2],
     [chunk_size |-> 6, chunk_overlap |-> 6, min_chunk_size |-> 2]}

\* a text of n characters "a" with a "b" at position p (none when p = 0)
MarkedText(n, p) == [i \in 1..n |-> IF i = p THEN "b" ELSE "a"]

\* page texts around the length of the id prefix: equal up to character 50
\* or not, shorter or longer than the default floor
LongTexts ==
    {MarkedText(ID_CONTENT_PREFIX - 1, 0)} \cup
    {MarkedText(ID_CONTENT_PREFIX + 1, p) :
        p \in {0, ID_CONTENT_PREFIX - 1, ID_CONTENT_PREFIX + 1}}

\* short page texts with separators
ShortTexts ==
    {<<>>, <<" ">>,
     <<"a", "b", "c", "d", " ", "e", "f", "g">>,
     <<"a", "b", "c", "d", "e", " ", " ", "f">>,
     <<"a", "b", "c", "d", "e", "f", "g", "h">>,
     <<"a", "b", ".", " ", "\n", "c", "d", "e", "f">>}

\* the page texts chunked with windows of a given size: the long texts are
\* chunked with the default window only
PageTexts(size) ==
    IF size = DEFAULT_CHUNK_SIZE THEN LongTexts \cup ShortTexts ELSE ShortTexts

Filenames == {<<"a">>, <<"a", ":", "p", "1">>}

\* PageContent(page_number, text, has_text), numbered from 1 in page order
PageLists(size) ==
    UNION {{[i \in 1..n |-> [page_number |-> i, text |-> t[i], has_text |-> h[i]]] :
               t \in [1..n -> PageTexts(size)], h \in [1..n -> BOOLEAN]} :
           n \in 1..MaxPages}

\* ExtractedDocument(filename, source_url, pages)
Documents(size) ==
    {[filename |-> f, source_url |-> StoredUrl(f), pages |-> ps] :
        f \in Filenames, ps \in PageLists(size)}

Digit(d) == <<"0", "1", "2", "3", "4", "5", "6", "7", "8", "9">>[d + 1]

RECURSIVE Str(_)
\* str(n) of a natural number, as the f-string formats it
Str(n) == IF n < 10 THEN <<Digit(n)>> ELSE Str(n \div 10) \o <<Digit(n % 10)>>

\* hashlib.md5(s.encode()).hexdigest(): a digest that is a function of s alone,
\* taken to be free of collisions
Md5(s) == [md5 |-> s]

\* the id string without the content
IdString_without_content(filename, page_number, chunk_index, content) ==
    filename \o <<":", "p">> \o Str(page_number) \o <<":", "c">>
             \o Str(chunk_index) \o <<":">>

\* the id string with the whole content instead of its first 50 characters
IdString_whole_content(filename, page_number, chunk_index, content) ==
    filename \o <<":", "p">> \o Str(page_number) \o <<":", "c">>
             \o Str(chunk_index) \o <<":">> \o content

\* f"{filename}:p{page_number}:c{chunk_index}:{content[:50]}"
IdString(filename, page_number, chunk_index, content) ==
    filename \o <<":", "p">> \o Str(page_number) \o <<":", "c">>
             \o Str(chunk_index) \o <<":">> \o Take(content, ID_CONTENT_PREFIX)

\* _generate_chunk_id
generate_chunk_id(filename, page_number, chunk_index, content) ==
    Md5(IdString(filename, page_number, chunk_index, content))

\* the separators of _chunk_text in their order of preference
Separators == <<(<<"\n", "\n">>), (<<"\n">>), (<<".", " ">>), (<<" ">>)>>

RECURSIVE FindBreak(_, _, _, _, _)
\* the for loop over the separators from the k-th on: the break point of the
\* window text[start:end]
FindBreak(text, start_, end, size, k) ==
    IF k > Len(Separators) THEN end
    ELSE LET sep      == Separators[k]
             last_sep == RFind(SubSeq(text, start_ + 1, end), sep)
         IN  IF 2 * last_sep > size
             THEN start_ + last_sep + Len(sep)
             ELSE FindBreak(text, start_, end, size, k + 1)

\* the window cut at its end whatever separators it holds
BreakPoint_hard_cut(text, start_, size) ==
    IF start_ + size >= Len(text) THEN Len(text) ELSE start_ + size

\* the break point of the window that starts at start_ (0-based): the end of
\* the text for the last window
BreakPoint(text, start_, size) ==
    IF start_ + size >= Len(text) THEN Len(text)
    ELSE FindBreak(text, start_, start_ + size, size, 1)

\* the early return of _chunk_text for an empty or short text
IsShortText(text, min_size) == Len(text) = 0 \/ Len(text) < min_size

ShortTextChunks(text) ==
    IF Len(text) > 0 /\ Strip(text) # <<>> THEN <<text>> ELSE <<>>

\* the window loop appending every chunk, whatever its length
KeepsChunk_any(chunk, min_size) == TRUE

\* if len(chunk) >= self.min_chunk_size: chunks.append(chunk)
KeepsChunk(chunk, min_size) == Len(chunk) >= min_size

\* the next window starting one character after the break point
NextStart_past_break(break_point, overlap) == break_point + 1

\* the next window stepping back by twice the overlap
NextStart_twice_overlap(break_point, overlap) ==
    IF break_point - 2 * overlap < 0 THEN 0 ELSE break_point - 2 * overlap

\* start = break_point - self.chunk_overlap; if start < 0: start = 0
NextStart(break_point, overlap) ==
    IF break_point - overlap < 0 THEN 0 ELSE break_point - overlap

\* the part [lo, hi) of the text (0-based offsets) that
\* text[start_:break_point].strip() is
StripSpan(text, start_, break_point) ==
    LET keep == {i \in (start_ + 1)..break_point : ~IsSpace(text[i])}
    IN  IF keep = {} THEN [lo |-> start_, hi |-> start_]
        ELSE [lo |-> Min(keep) - 1, hi |-> Max(keep)]

\* the part of the text the single chunk of a short text is: all of it
ShortTextSpans(text) ==
    IF ShortTextChunks(text) = <<>> THEN <<>> ELSE <<[lo |-> 0, hi |-> Len(text)]>>

\* DocumentChunk with the chunks of a page numbered from 1
DocumentChunk_index_from_one(doc, page, idx, chunk_text) ==
    [chunk_id |-> generate_chunk_id(doc.filename, page.page_number, idx, chunk_text),
     content |-> chunk_text,
     source_file |-> doc.filename,
     page_number |-> page.page_number,
     source_url |-> doc.source_url,
     chunk_index |-> idx + 1]

\* DocumentChunk built by chunk_document for the idx-th (0-based) chunk of a page
DocumentChunk(doc, page, idx, chunk_text) ==
    [chunk_id |-> generate_chunk_id(doc.filename, page.page_number, idx, chunk_text),
     content |-> chunk_text,
     source_file |-> doc.filename,
     page_number |-> page.page_number,
     source_url |-> doc.source_url,
     chunk_index |-> idx]

----------------------------------------------------------------------------
(* State *)

VARIABLES
    pc,                    \* position of answer_question
    score_threshold,       \* settings.score_threshold
    strict_grounding,      \* settings.strict_grounding
    question,              \* request.question
    conversation_history,  \* request.conversation_history
    embed_faults,          \* the first embed_faults embeddings.create calls fail
    index_fault,           \* the index query of this request raises
    search_query,          \* local search_query
    attempts,              \* failed attempts of embed_text so far
    chunks,                \* local chunks
    gating_result,         \* local gating_result
    answer,                \* local answer
    cite_idx,              \* position of the loop of _build_citations
    seen,                  \* local seen of _build_citations
    citations,             \* local citations of _build_citations
    response,              \* the ChatResponse returned
    calls                  \* the steps and external calls made, in order

pipeVars == <<pc, score_threshold, strict_grounding, question,
              conversation_history, embed_faults, index_fault, search_query,
              attempts, chunks, gating_result, answer, cite_idx, seen,
              citations, response, calls>>

VARIABLES
    chunk_size,            \* ChunkService.chunk_size
    chunk_overlap,         \* ChunkService.chunk_overlap
    min_chunk_size,        \* ChunkService.min_chunk_size
    document,              \* the document of the current chunk_document call
    ck_pc,                 \* position of chunk_document
    page_idx,              \* position of the loop over document.pages
    start,                 \* local start of _chunk_text
    text_chunks,           \* local chunks of _chunk_text
    spans,                 \* where in the page text each chunk of text_chunks lies
    dropped,               \* where in the page text the chunks not appended lie
    all_chunks,            \* local all_chunks of chunk_document
    runs                   \* the finished calls: the document and the list returned

chunkVars == <<chunk_size, chunk_overlap, min_chunk_size, document, ck_pc,
               page_idx, start, text_chunks, spans, dropped, all_chunks, runs>>

chunkParamVars == <<chunk_size, chunk_overlap, min_chunk_size>>

VARIABLES
    ix_pc,                 \* position of index_chunks
    num_chunks,            \* len(chunks) of the index_chunks call
    num_embeddings,        \* len(embeddings) of the index_chunks call
    batch_start,           \* loop variable i of the batch loop
    succeeded,             \* local succeeded
    failed,                \* local failed
    errors,                \* local errors
    uploads,               \* the upload_documents calls made, in order
    index_stats            \* the IndexStats returned

indexVars == <<ix_pc, num_chunks, num_embeddings, batch_start, succeeded,
               failed, errors, uploads, index_stats>>

VARIABLES
    em_pc,                 \* position of embed_texts
    em_total,              \* len(texts) of the embed_texts call
    em_start,              \* loop variable i of the sub-batch loop
    em_count,              \* len(all_embeddings)
    em_calls               \* the embeddings.create calls of embed_texts, in order

embedVars == <<em_pc, em_total, em_start, em_count, em_calls>>

VARIABLES
    ing_pc,                \* position of ingest_documents
    force_reindex,         \* request.force_reindex
    blobs,                 \* the PDFs download_all_pdfs will return
    documents,             \* local documents
    doc_idx,               \* position of the loop over documents
    num_pdfs,              \* local num_pdfs
    num_all_chunks,        \* len(all_chunks)
    num_failures,          \* local num_failures
    details,               \* local details
    ing_response,          \* the IngestResponse returned
    ing_calls              \* the service calls of the run, in order

ingestVars == <<ing_pc, force_reindex, blobs, documents, doc_idx, num_pdfs,
                num_all_chunks, num_failures, details, ing_response, ing_calls>>

VARIABLES
    rag_service,           \* module global _rag_service of routes_chat
    search_client,         \* SearchService._search_client of the shared service
    container_client,      \* BlobService._container_client of the shared service
    account_key,           \* BlobService._account_name / _account_key
    pending,               \* the chat requests not served yet
    served                 \* the chat requests served, with their responses

servingVars == <<rag_service, search_client, container_client, account_key,
                 pending, served>>

vars == <<pipeVars, chunkVars, indexVars, embedVars, ingestVars, servingVars>>

settingsVars == <<score_threshold, strict_grounding>>
requestVars == <<question, conversation_history, embed_faults, index_fault>>
citeVars == <<cite_idx, seen, citations>>

----------------------------------------------------------------------------
(* RAGService.answer_question *)

\* the request path before a request: no request, no locals
PipeOff ==
    /\ question = <<>>
    /\ conversation_history = [present |-> FALSE, msgs |-> <<>>]
    /\ embed_faults = 0
    /\ index_fault = FALSE
    /\ search_query = <<>>
    /\ attempts = 0
    /\ answer = ""
    /\ cite_idx = 0
    /\ seen = {}
    /\ citations = <<>>
    /\ response = NoResponse
    /\ calls = <<>>

\* the chunk service when it is not part of the specification
ChunkOff ==
    /\ chunk_size = DEFAULT_CHUNK_SIZE
    /\ chunk_overlap = DEFAULT_CHUNK_OVERLAP
    /\ min_chunk_size = DEFAULT_MIN_CHUNK_SIZE
    /\ document = [filename |-> <<>>, source_url |-> StoredUrl(<<>>), pages |-> <<>>]
    /\ ck_pc = "off"
    /\ page_idx = 0
    /\ start = 0
    /\ text_chunks = <<>>
    /\ spans = <<>>
    /\ dropped = <<>>
    /\ all_chunks = <<>>
    /\ runs = <<>>

\* IndexStats(num_documents, num_succeeded, num_failed, errors)
IndexStats(num_documents, num_succeeded, num_failed, errs) ==
    [num_documents |-> num_documents, num_succeeded |-> num_succeeded,
     num_failed |-> num_failed, errors |-> errs]

NoIndexStats == IndexStats(0, 0, 0, <<>>)

\* the index writer when it is not part of the specification
IndexOff ==
    /\ ix_pc = "off"
    /\ num_chunks = 0
    /\ num_embeddings = 0
    /\ batch_start = 0
    /\ succeeded = 0
    /\ failed = 0
    /\ errors = <<>>
    /\ uploads = <<>>
    /\ index_stats = NoIndexStats

\* embed_texts when it is not part of the specification
EmbedOff ==
    /\ em_pc = "off"
    /\ em_total = 0
    /\ em_start = 0
    /\ em_count = 0
    /\ em_calls = <<>>

NoIngestResponse == [returned |-> FALSE]

\* the ingest endpoint when it is not part of the specification
IngestOff ==
    /\ ing_pc = "off"
    /\ force_reindex = FALSE
    /\ blobs = <<>>
    /\ documents = <<>>
    /\ doc_idx = 0
    /\ num_pdfs = 0
    /\ num_all_chunks = 0
    /\ num_failures = 0
    /\ details = <<>>
    /\ ing_response = NoIngestResponse
    /\ ing_calls = <<>>

\* the chat endpoint when it is not part of the specification
ServingOff ==
    /\ rag_service = "None"
    /\ search_client = "None"
    /\ container_client = "None"
    /\ account_key = "None"
    /\ pending = {}
    /\ served = <<>>

PipeInit ==
    /\ pc = "idle"
    /\ score_threshold = SCORE_THRESHOLD
    /\ strict_grounding \in BOOLEAN
    /\ chunks = <<>>
    /\ gating_result = NoGating
    /\ PipeOff
    /\ ChunkOff
    /\ IndexOff
    /\ EmbedOff
    /\ IngestOff
    /\ ServingOff

\* chat(): a request arrives; the replies of the embedding service and of
\* the index to this request are fixed here
ReceiveQuestion ==
    /\ pc = "idle"
    /\ question' \in Questions
    /\ conversation_history' \in Histories
    /\ embed_faults' \in 0..MAX_EMBED_ATTEMPTS
    /\ index_fault' \in BOOLEAN
    /\ pc' = "received"
    /\ UNCHANGED <<embedVars, ingestVars, servingVars,
                   indexVars, chunkVars, settingsVars, search_query, attempts, chunks, gating_result,
                   answer, citeVars, response, calls>>

\* the history test as "is not None"
HasHistory_not_none(h) == h.present

\* if conversation_history and len(conversation_history) > 0
HasHistory(h) == h.present /\ Len(h.msgs) > 0

\* _rewrite_query_with_context returning an empty query from its except branch
rewrite_query_with_context_empty(q, out) ==
    IF out.raises \/ out.content_none THEN <<>> ELSE Strip(out.text)

\* _rewrite_query_with_context: the completion's stripped content, or the
\* question when the call or the access to its content raises
rewrite_query_with_context(q, out) ==
    IF out.raises \/ out.content_none THEN q ELSE Strip(out.text)

RewriteQuery ==
    /\ pc = "received"
    /\ HasHistory(conversation_history)
    /\ \E out \in RewriteOutcomes :
          /\ search_query' = rewrite_query_with_context(question, out)
          /\ calls' = Append(calls, Call("rewrite",
                                        ~(out.raises \/ out.content_none),
                                        question, <<>>, ""))
    /\ pc' = "prepared"
    /\ UNCHANGED <<embedVars, ingestVars, servingVars,
                   indexVars, chunkVars, settingsVars, requestVars, attempts, chunks, gating_result,
                   answer, citeVars, response>>

SkipRewrite ==
    /\ pc = "received"
    /\ ~HasHistory(conversation_history)
    /\ search_query' = question
    /\ pc' = "prepared"
    /\ UNCHANGED <<embedVars, ingestVars, servingVars,
                   indexVars, chunkVars, settingsVars, requestVars, attempts, chunks, gating_result,
                   answer, citeVars, response, calls>>

\* the except branch of the search step reporting the request as in context
SearchFailed_in_context ==
    /\ response' = ChatResponse(SEARCH_ERROR_MESSAGE, <<>>, FALSE, 0)
    /\ pc' = "done"

\* the except branch of the search step
SearchFailed ==
    /\ response' = ChatResponse(SEARCH_ERROR_MESSAGE, <<>>, TRUE, 0)
    /\ pc' = "done"

\* embed_text: if not text or not text.strip(): raise ValueError
EmbedRejects(text) == Len(text) = 0 \/ Strip(text) = <<>>

\* one attempt of embed_text(search_query) under @retry
EmbedAttempt ==
    /\ pc = "prepared"
    /\ LET rejected == EmbedRejects(search_query)
           attempt_failed == rejected \/ attempts < embed_faults
           entered == IF attempts = 0
                      THEN Append(calls, Call("search", TRUE, search_query,
                                              <<>>, ""))
                      ELSE calls
       IN  /\ calls' = IF rejected THEN entered
                       ELSE Append(entered, Call("embed", ~attempt_failed,
                                                 search_query, <<>>, ""))
           /\ IF attempt_failed
              THEN /\ attempts' = attempts + 1
                   /\ IF attempts + 1 >= MAX_EMBED_ATTEMPTS
                      THEN SearchFailed
                      ELSE UNCHANGED <<pc, response>>
              ELSE /\ pc' = "embedded"
                   /\ UNCHANGED <<attempts, response>>
    /\ UNCHANGED <<embedVars, ingestVars, servingVars,
                   indexVars, chunkVars, settingsVars, requestVars, search_query, chunks,
                   gating_result, answer, citeVars>>

\* search_client.search(...) and the loop over its results
IndexQuery ==
    /\ pc = "embedded"
    /\ calls' = Append(calls, Call("index_query", ~index_fault, search_query,
                                  <<>>, ""))
    /\ IF index_fault
       THEN /\ SearchFailed
            /\ UNCHANGED chunks
       ELSE /\ chunks' \in ChunkLists
            /\ pc' = "searched"
            /\ UNCHANGED response
    /\ UNCHANGED <<embedVars, ingestVars, servingVars,
                   indexVars, chunkVars, settingsVars, requestVars, search_query, attempts,
                   gating_result, answer, citeVars>>

Gate ==
    /\ pc = "searched"
    /\ gating_result' =
          check_retrieval_quality(chunks, score_threshold, strict_grounding)
    /\ calls' = Append(calls, Call("gate", gating_result'.passed, <<>>,
                                  ChunkIds(chunks), ""))
    /\ IF ~gating_result'.passed
       THEN /\ response' = ChatResponse(OUT_OF_CONTEXT_MESSAGE, <<>>, TRUE,
                                        gating_result'.num_chunks)
            /\ pc' = "done"
       ELSE /\ pc' = "gated"
            /\ UNCHANGED response
    /\ UNCHANGED <<embedVars, ingestVars, servingVars,
                   indexVars, chunkVars, settingsVars, requestVars, search_query, attempts, chunks,
                   answer, citeVars>>

\* the except branch of the generation step reporting out_of_context
GenerationFailed_out_of_context ==
    /\ response' = ChatResponse(GENERATION_ERROR_MESSAGE, <<>>, TRUE, Len(chunks))
    /\ pc' = "done"

\* the except branch of the generation step
GenerationFailed ==
    /\ response' = ChatResponse(GENERATION_ERROR_MESSAGE, <<>>, FALSE, Len(chunks))
    /\ pc' = "done"

\* _generate_response: response.choices[0].message.content or ""
generate_response(out) == IF out.content_none THEN "" ELSE out.text

\* the generation step calling the model a second time after a first failure
Generate_retries_once ==
    /\ pc = "gated"
    /\ \E out \in GenOutcomes :
        /\ calls' = Append(calls, Call("generate", ~out.raises, question,
                                      ChunkIds(chunks), out.text))
        /\ IF out.raises
           THEN /\ IF \E i \in 1..Len(calls) : calls[i].call = "generate"
                   THEN GenerationFailed
                   ELSE UNCHANGED <<pc, response>>
                /\ UNCHANGED answer
           ELSE /\ answer' = generate_response(out)
                /\ pc' = "generated"
                /\ UNCHANGED response
    /\ UNCHANGED <<embedVars, ingestVars, servingVars,
                   indexVars, chunkVars, settingsVars, requestVars, search_query, attempts, chunks,
                   gating_result, citeVars>>

Generate ==
    /\ pc = "gated"
    /\ \E out \in GenOutcomes :
        /\ calls' = Append(calls, Call("generate", ~out.raises, question,
                                      ChunkIds(chunks), out.text))
        /\ IF out.raises
           THEN /\ GenerationFailed
                /\ UNCHANGED answer
           ELSE /\ answer' = generate_response(out)
                /\ pc' = "generated"
                /\ UNCHANGED response
    /\ UNCHANGED <<embedVars, ingestVars, servingVars,
                   indexVars, chunkVars, settingsVars, requestVars, search_query, attempts, chunks,
                   gating_result, citeVars>>

\* _build_citations: citations = [], seen = set()
BuildCitations ==
    /\ pc = "generated"
    /\ calls' = Append(calls, Call("cite", TRUE, <<>>, ChunkIds(chunks), ""))
    /\ cite_idx' = 1
    /\ seen' = {}
    /\ citations' = <<>>
    /\ pc' = "citing"
    /\ UNCHANGED <<embedVars, ingestVars, servingVars,
                   indexVars, chunkVars, settingsVars, requestVars, search_query, attempts, chunks,
                   gating_result, answer, response>>

\* the fallback of _build_citations putting the page anchor on the stored URL
CitationUrl_anchored_fallback(chunk, sas_ok) ==
    IF chunk.metadata.page_number # NoPage
    THEN [(IF sas_ok THEN SasUrl(chunk.metadata.source_file)
                     ELSE chunk.metadata.source_url)
             EXCEPT !.page_anchor = chunk.metadata.page_number]
    ELSE IF sas_ok THEN SasUrl(chunk.metadata.source_file)
                   ELSE chunk.metadata.source_url

\* the source_url of a citation: the URL generate_sas_url returned with the
\* page anchor, or the stored URL when generate_sas_url raised
CitationUrl(chunk, sas_ok) ==
    IF sas_ok
    THEN IF chunk.metadata.page_number # NoPage
         THEN [SasUrl(chunk.metadata.source_file)
                  EXCEPT !.page_anchor = chunk.metadata.page_number]
         ELSE SasUrl(chunk.metadata.source_file)
    ELSE chunk.metadata.source_url

Citation(chunk, sas_ok) ==
    [source_file |-> chunk.metadata.source_file,
     page_number |-> chunk.metadata.page_number,
     source_url |-> CitationUrl(chunk, sas_ok),
     snippet |-> TruncateText(chunk.content, SNIPPET_MAX_LENGTH, <<".", ".", ".">>)]

\* the loop of _build_citations telling citations apart by source_file only
CiteChunk_by_file ==
    /\ pc = "citing"
    /\ cite_idx <= Len(chunks)
    /\ LET chunk == chunks[cite_idx]
           key   == chunk.metadata.source_file
       IN  IF key \in seen
           THEN UNCHANGED <<seen, citations, calls>>
           ELSE /\ seen' = seen \cup {key}
                /\ \E sas_ok \in BOOLEAN :
                      /\ calls' = Append(calls, Call("sas", sas_ok, <<>>,
                                                    <<chunk.metadata.chunk_id>>, ""))
                      /\ citations' = Append(citations, Citation(chunk, sas_ok))
    /\ cite_idx' = cite_idx + 1
    /\ UNCHANGED <<embedVars, ingestVars, servingVars,
                   indexVars, chunkVars, pc, settingsVars, requestVars, search_query, attempts,
                   chunks, gating_result, answer, response>>

\* the loop of _build_citations letting the exception of generate_sas_url
\* propagate out of answer_question
CiteChunk_link_failure_propagates ==
    /\ pc = "citing"
    /\ cite_idx <= Len(chunks)
    /\ LET chunk == chunks[cite_idx]
           key   == <<chunk.metadata.source_file, chunk.metadata.page_number>>
       IN  IF key \in seen
           THEN UNCHANGED <<seen, citations, calls, pc>>
           ELSE /\ seen' = seen \cup {key}
                /\ \E sas_ok \in BOOLEAN :
                      /\ calls' = Append(calls, Call("sas", sas_ok, <<>>,
                                                    <<chunk.metadata.chunk_id>>, ""))
                      /\ IF sas_ok
                         THEN /\ citations' = Append(citations, Citation(chunk, sas_ok))
                              /\ UNCHANGED pc
                         ELSE /\ pc' = "raised"
                              /\ UNCHANGED citations
    /\ cite_idx' = cite_idx + 1
    /\ UNCHANGED <<embedVars, ingestVars, servingVars,
                   indexVars, chunkVars, settingsVars, requestVars, search_query, attempts,
                   chunks, gating_result, answer, response>>

\* one iteration of the loop of _build_citations
CiteChunk ==
    /\ pc = "citing"
    /\ cite_idx <= Len(chunks)
    /\ LET chunk == chunks[cite_idx]
           key   == <<chunk.metadata.source_file, chunk.metadata.page_number>>
       IN  IF key \in seen
           THEN UNCHANGED <<seen, citations, calls>>
           ELSE /\ seen' = seen \cup {key}
                /\ \E sas_ok \in BOOLEAN :
                      /\ calls' = Append(calls, Call("sas", sas_ok, <<>>,
                                                    <<chunk.metadata.chunk_id>>, ""))
                      /\ citations' = Append(citations, Citation(chunk, sas_ok))
    /\ cite_idx' = cite_idx + 1
    /\ UNCHANGED <<embedVars, ingestVars, servingVars,
                   indexVars, chunkVars, pc, settingsVars, requestVars, search_query, attempts,
                   chunks, gating_result, answer, response>>

\* the final return reporting the number of citations as the chunk count
ReturnAnswer_citation_count ==
    /\ pc = "citing"
    /\ cite_idx > Len(chunks)
    /\ response' = ChatResponse(answer, citations, FALSE, Len(citations))
    /\ pc' = "done"
    /\ UNCHANGED <<embedVars, ingestVars, servingVars,
                   indexVars, chunkVars, settingsVars, requestVars, search_query, attempts,
                   chunks, gating_result, answer, citeVars, calls>>

ReturnAnswer ==
    /\ pc = "citing"
    /\ cite_idx > Len(chunks)
    /\ response' = ChatResponse(answer, citations, FALSE, Len(chunks))
    /\ pc' = "done"
    /\ UNCHANGED <<embedVars, ingestVars, servingVars,
                   indexVars, chunkVars, settingsVars, requestVars, search_query, attempts, chunks,
                   gating_result, answer, citeVars, calls>>

Init == PipeInit

Next ==
    \/ ReceiveQuestion
    \/ RewriteQuery
    \/ SkipRewrite
    \/ EmbedAttempt
    \/ IndexQuery
    \/ Gate
    \/ Generate
    \/ BuildCitations
    \/ CiteChunk
    \/ ReturnAnswer

Spec == Init /\ [][Next]_vars

----------------------------------------------------------------------------
(* Properties of answer_question *)

Called(name) == \E i \in 1..Len(calls) : calls[i].call = name

Raised(name) == \E i \in 1..Len(calls) : calls[i].call = name /\ ~calls[i].ok

\* the entries of the log for one step
CallsOf(name) == {i \in 1..Len(calls) : calls[i].call = name}

\* the retrieval gate fails on the retrieved chunks: none retrieved, or
\* strict grounding on and every score below the threshold
GateFails ==
    \/ Len(chunks) = 0
    \/ strict_grounding /\ \A i \in 1..Len(chunks) : chunks[i].score < score_threshold

\* the search step raised: the query embedding gave up, or the index query raised
SearchRaised ==
    \/ attempts >= MAX_EMBED_ATTEMPTS
    \/ Raised("index_query")

\* a search for the text q would succeed against this request's services
SearchWouldSucceed(q) ==
    /\ \E i \in 1..Len(q) : ~IsSpace(q[i])
    /\ embed_faults < MAX_EMBED_ATTEMPTS
    /\ ~index_fault

\* C1: whenever the gate has run and failed, the request is over with the
\* fixed refusal (OUT_OF_CONTEXT_MESSAGE, no citations, out_of_context,
\* the number of chunks the search returned) and no generation call was made
C1_GateFailureRefuses ==
    (Called("gate") /\ GateFails) =>
        /\ pc = "done"
        /\ ~Called("generate")
        /\ response = ChatResponse(OUT_OF_CONTEXT_MESSAGE, <<>>, TRUE, Len(chunks))

C1_Witness ==
    /\ pc = "done"
    /\ Called("gate")
    /\ GateFails
    /\ Len(chunks) = 2
    /\ response.retrieved_chunks_count = 2

\* C2: a request answered with the out-of-context refusal made no chat
\* completion call at all, neither the rewrite nor the generation
C2_RefusalWithoutLlmCall ==
    (pc = "done" /\ response.out_of_context
                 /\ response.answer = OUT_OF_CONTEXT_MESSAGE) =>
        (~Called("rewrite") /\ ~Called("generate"))

\* C3: once the search step has raised, the request is over with the search
\* error response (no citations, out_of_context, count 0) and neither the
\* gate nor the generator nor the citation builder has run
C3_SearchFailureRefuses ==
    SearchRaised =>
        /\ pc = "done"
        /\ response = ChatResponse(SEARCH_ERROR_MESSAGE, <<>>, TRUE, 0)
        /\ ~Called("gate")
        /\ ~Called("generate")
        /\ ~Called("cite")
        /\ ~Called("sas")

C3_Witness ==
    /\ pc = "done"
    /\ Raised("index_query")
    /\ response.answer = SEARCH_ERROR_MESSAGE

\* C4: once the gate has passed and the generation call has raised, the
\* request is over with the generation error response (no citations, not
\* out_of_context, the number of retrieved chunks) and neither the citation
\* builder nor the link resolver has run
C4_GenerationFailureDegrades ==
    (Called("gate") /\ ~GateFails /\ Raised("generate")) =>
        /\ pc = "done"
        /\ response = ChatResponse(GENERATION_ERROR_MESSAGE, <<>>, FALSE, Len(chunks))
        /\ ~Called("cite")
        /\ ~Called("sas")

C4_Witness ==
    /\ pc = "done"
    /\ Raised("generate")
    /\ Len(chunks) = 2
    /\ response.answer = GENERATION_ERROR_MESSAGE

\* C5: a finished request whose gate passed and whose generation call
\* returned answers with the generator's text, not out_of_context, the number
\* of retrieved chunks, and citations of exactly the chunks that the gate
\* and the generator were given: every citation is of one of them, every one
\* of them is cited, and there are between one and Len(chunks) citations
C5_CitedAnswer ==
    (pc = "done" /\ Called("gate") /\ ~GateFails /\ Called("generate")
                 /\ ~Raised("generate")) =>
        /\ \A i \in CallsOf("generate") : response.answer = calls[i].reply
        /\ response.out_of_context = FALSE
        /\ response.retrieved_chunks_count = Len(chunks)
        /\ \A i \in CallsOf("gate") \cup CallsOf("generate") \cup CallsOf("cite") :
              calls[i].evidence = ChunkIds(chunks)
        /\ \A k \in 1..Len(response.citations) :
              \E i \in 1..Len(chunks) :
                 /\ response.citations[k].source_file = chunks[i].metadata.source_file
                 /\ response.citations[k].page_number = chunks[i].metadata.page_number
        /\ \A i \in 1..Len(chunks) :
              \E k \in 1..Len(response.citations) :
                 /\ response.citations[k].source_file = chunks[i].metadata.source_file
                 /\ response.citations[k].page_number = chunks[i].metadata.page_number
        /\ Len(response.citations) >= 1
        /\ Len(response.citations) <= Len(chunks)

C5_Witness ==
    /\ pc = "done"
    /\ Called("generate")
    /\ ~Raised("generate")
    /\ response.answer = "generated answer"
    /\ Len(chunks) = 2
    /\ Len(response.citations) = 1

\* C6: once the query is prepared, the rewriter has been called exactly when
\* the history is present and non-empty; without history no rewrite call is
\* made and every search is issued with the question as received
C6_RewriteIffHistory ==
    (pc \notin {"idle", "received"}) =>
        LET nonEmpty == conversation_history.present
                        /\ conversation_history.msgs # <<>>
        IN  /\ Called("rewrite") <=> nonEmpty
            /\ ~nonEmpty =>
                  /\ search_query = question
                  /\ \A i \in CallsOf("search") \cup CallsOf("embed")
                              \cup CallsOf("index_query") :
                        calls[i].query = question

C6_Witness ==
    /\ pc = "searched"
    /\ conversation_history.present
    /\ conversation_history.msgs = <<>>
    /\ ~Called("rewrite")
    /\ Called("index_query")

\* C7: after a failed rewrite call the search query is the original
\* question, every search is issued with it, and the request ends in the
\* search error only if a search for the original question fails
C7_RewriteFailureFallsBack ==
    Raised("rewrite") =>
        /\ pc \notin {"idle", "received"}
        /\ search_query = question
        /\ \A i \in CallsOf("search") \cup CallsOf("embed")
                    \cup CallsOf("index_query") :
              calls[i].query = question
        /\ (pc = "done" /\ response.answer = SEARCH_ERROR_MESSAGE) =>
              ~SearchWouldSucceed(question)

C7_Witness ==
    /\ Raised("rewrite")
    /\ pc = "done"
    /\ Called("index_query")
    /\ response.answer = "generated answer"

\* C8: whatever the rewrite call did, a request whose original question
\* would be searched successfully does not end in the search error response
C8_RewriteNeverBreaksSearch ==
    (pc = "done" /\ SearchWouldSucceed(question)) =>
        response.answer # SEARCH_ERROR_MESSAGE

----------------------------------------------------------------------------
(* check_retrieval_quality on its own *)

\* longest chunk list given to the gate
MaxGateChunks == 3

\* the chunk lists given to the gate: every list of scores up to MaxGateChunks
GateInputs ==
    UNION {[1..n -> {RetrievedChunk(r, sc) :
                        r \in {rec \in IndexRecords : rec.chunk_id = "c1"},
                        sc \in Scores}] :
           n \in 0..MaxGateChunks}

GateInit ==
    /\ pc = "gate_input"
    /\ chunks \in GateInputs
    /\ score_threshold \in 0..(MaxScore + 1)
    /\ strict_grounding \in BOOLEAN
    /\ gating_result = NoGating
    /\ PipeOff
    /\ ChunkOff
    /\ IndexOff
    /\ EmbedOff
    /\ IngestOff
    /\ ServingOff

CheckRetrievalQuality ==
    /\ pc = "gate_input"
    /\ gating_result' =
          check_retrieval_quality(chunks, score_threshold, strict_grounding)
    /\ pc' = "gate_output"
    /\ UNCHANGED <<embedVars, ingestVars, servingVars,
                   indexVars, chunkVars, settingsVars, requestVars, search_query, attempts,
                   chunks, answer, citeVars, response, calls>>

GateNext == CheckRetrievalQuality

SpecGate == GateInit /\ [][GateNext]_vars

\* C9: for an empty list the gate returns passed = false, no top score and
\* num_chunks = 0 whatever strict is; for a non-empty list top_score is the
\* largest score of the list, num_chunks its length, and passed holds exactly
\* when strict is off or the largest score is at least the threshold
C9_GateResult ==
    (pc = "gate_output") =>
        IF chunks = <<>>
        THEN /\ gating_result.passed = FALSE
             /\ gating_result.top_score = NoScore
             /\ gating_result.num_chunks = 0
        ELSE /\ \E i \in 1..Len(chunks) : gating_result.top_score = chunks[i].score
             /\ \A i \in 1..Len(chunks) : gating_result.top_score >= chunks[i].score
             /\ gating_result.num_chunks = Len(chunks)
             /\ gating_result.passed <=>
                   (~strict_grounding \/ gating_result.top_score >= score_threshold)

\* a list whose largest score, not the first or the last, equals the threshold
C9_Witness ==
    /\ pc = "gate_output"
    /\ Len(chunks) = 3
    /\ strict_grounding
    /\ chunks[2].score = score_threshold
    /\ chunks[1].score < score_threshold
    /\ chunks[3].score < score_threshold
    /\ gating_result.passed

----------------------------------------------------------------------------
(* ChunkService.chunk_document *)

\* the documents of a later call: the same document again, or the same file
\* with the text of its last page replaced
Revisions(doc, size) ==
    {doc} \cup
    {[doc EXCEPT !.pages[Len(doc.pages)].text = t] : t \in PageTexts(size)}

ChunkInit ==
    /\ \E prm \in ChunkParams :
          /\ chunk_size = prm.chunk_size
          /\ chunk_overlap = prm.chunk_overlap
          /\ min_chunk_size = prm.min_chunk_size
    /\ document \in Documents(chunk_size)
    /\ ck_pc = "next_page"
    /\ page_idx = 1
    /\ start = 0
    /\ text_chunks = <<>>
    /\ spans = <<>>
    /\ dropped = <<>>
    /\ all_chunks = <<>>
    /\ runs = <<>>
    /\ pc = "off"
    /\ score_threshold = SCORE_THRESHOLD
    /\ strict_grounding = TRUE
    /\ chunks = <<>>
    /\ gating_result = NoGating
    /\ PipeOff
    /\ IndexOff
    /\ EmbedOff
    /\ IngestOff
    /\ ServingOff

\* for page in document.pages: if not page.has_text: continue
SkipPage ==
    /\ ck_pc = "next_page"
    /\ page_idx <= Len(document.pages)
    /\ ~document.pages[page_idx].has_text
    /\ page_idx' = page_idx + 1
    /\ UNCHANGED <<embedVars, ingestVars, servingVars,
                   indexVars, pipeVars, chunkParamVars, document, ck_pc, start,
                   text_chunks, spans, dropped, all_chunks, runs>>

\* _chunk_text(page.text), the early return for an empty or short text
ChunkShortText ==
    /\ ck_pc = "next_page"
    /\ page_idx <= Len(document.pages)
    /\ document.pages[page_idx].has_text
    /\ IsShortText(document.pages[page_idx].text, min_chunk_size)
    /\ text_chunks' = ShortTextChunks(document.pages[page_idx].text)
    /\ spans' = ShortTextSpans(document.pages[page_idx].text)
    /\ dropped' = <<>>
    /\ ck_pc' = "emit"
    /\ UNCHANGED <<embedVars, ingestVars, servingVars,
                   indexVars, pipeVars, chunkParamVars, document, page_idx, start,
                   all_chunks, runs>>

\* _chunk_text(page.text): chunks = [], start = 0
ChunkTextBegin ==
    /\ ck_pc = "next_page"
    /\ page_idx <= Len(document.pages)
    /\ document.pages[page_idx].has_text
    /\ ~IsShortText(document.pages[page_idx].text, min_chunk_size)
    /\ text_chunks' = <<>>
    /\ spans' = <<>>
    /\ dropped' = <<>>
    /\ start' = 0
    /\ ck_pc' = "window"
    /\ UNCHANGED <<embedVars, ingestVars, servingVars,
                   indexVars, pipeVars, chunkParamVars, document, page_idx, all_chunks, runs>>

\* one iteration of the while loop of _chunk_text
Window ==
    /\ ck_pc = "window"
    /\ Len(text_chunks) + Len(dropped) < MaxWindows
    /\ LET text        == document.pages[page_idx].text
           text_length == Len(text)
           end         == start + chunk_size
           break_point == BreakPoint(text, start, chunk_size)
           chunk       == Strip(SubSeq(text, start + 1, break_point))
           next_start  == NextStart(break_point, chunk_overlap)
       IN  /\ start < text_length
           /\ IF KeepsChunk(chunk, min_chunk_size)
              THEN /\ text_chunks' = Append(text_chunks, chunk)
                   /\ spans' = Append(spans, StripSpan(text, start, break_point))
                   /\ UNCHANGED dropped
              ELSE /\ dropped' = Append(dropped, StripSpan(text, start, break_point))
                   /\ UNCHANGED <<text_chunks, spans>>
           /\ IF end >= text_length
              THEN /\ ck_pc' = "emit"
                   /\ UNCHANGED start
              ELSE /\ start' = next_start
                   /\ ck_pc' = IF next_start >= text_length THEN "emit" ELSE "window"
    /\ UNCHANGED <<embedVars, ingestVars, servingVars,
                   indexVars, pipeVars, chunkParamVars, document, page_idx, all_chunks, runs>>

\* for idx, chunk_text in enumerate(text_chunks): all_chunks.append(...)
EmitPage ==
    /\ ck_pc = "emit"
    /\ all_chunks' = all_chunks \o
          [i \in 1..Len(text_chunks) |->
              DocumentChunk(document, document.pages[page_idx], i - 1, text_chunks[i])]
    /\ page_idx' = page_idx + 1
    /\ text_chunks' = <<>>
    /\ spans' = <<>>
    /\ dropped' = <<>>
    /\ start' = 0
    /\ ck_pc' = "next_page"
    /\ UNCHANGED <<embedVars, ingestVars, servingVars,
                   indexVars, pipeVars, chunkParamVars, document, runs>>

\* return all_chunks
ReturnChunks ==
    /\ ck_pc = "next_page"
    /\ page_idx > Len(document.pages)
    /\ runs' = Append(runs, [document |-> document, chunks |-> all_chunks])
    /\ ck_pc' = "returned"
    /\ UNCHANGED <<embedVars, ingestVars, servingVars,
                   indexVars, pipeVars, chunkParamVars, document, page_idx, start,
                   text_chunks, spans, dropped, all_chunks>>

\* chunk_document is called again on the same ChunkService
ChunkDocumentAgain ==
    /\ ck_pc = "returned"
    /\ Len(runs) < MaxRuns
    /\ document' \in Revisions(document, chunk_size)
    /\ page_idx' = 1
    /\ all_chunks' = <<>>
    /\ ck_pc' = "next_page"
    /\ UNCHANGED <<embedVars, ingestVars, servingVars,
                   indexVars, pipeVars, chunkParamVars, start, text_chunks, spans,
                   dropped, runs>>

ChunkNext ==
    \/ SkipPage
    \/ ChunkShortText
    \/ ChunkTextBegin
    \/ Window
    \/ EmitPage
    \/ ReturnChunks
    \/ ChunkDocumentAgain

SpecChunk == ChunkInit /\ [][ChunkNext]_vars

\* C10: any two calls of chunk_document on the same document return the same
\* ordered list of chunks with the same chunk_ids, and two chunks of any two
\* calls that agree on filename, page number, chunk index and the first 50
\* characters of their content have the same chunk_id
C10_ChunkingDeterministic ==
    \A r1, r2 \in 1..Len(runs) :
        /\ runs[r1].document = runs[r2].document => runs[r1].chunks = runs[r2].chunks
        /\ \A i \in 1..Len(runs[r1].chunks), j \in 1..Len(runs[r2].chunks) :
              LET c1 == runs[r1].chunks[i]
                  c2 == runs[r2].chunks[j]
              IN  (/\ c1.source_file = c2.source_file
                   /\ c1.page_number = c2.page_number
                   /\ c1.chunk_index = c2.chunk_index
                   /\ Take(c1.content, ID_CONTENT_PREFIX) = Take(c2.content, ID_CONTENT_PREFIX))
                  => c1.chunk_id = c2.chunk_id

\* two calls returned chunks that differ only after their 50th character
C10_Witness ==
    /\ Len(runs) = 2
    /\ Len(runs[1].chunks) = 1
    /\ Len(runs[2].chunks) = 1
    /\ runs[1].chunks[1].content # runs[2].chunks[1].content
    /\ Take(runs[1].chunks[1].content, ID_CONTENT_PREFIX)
          = Take(runs[2].chunks[1].content, ID_CONTENT_PREFIX)
    /\ runs[1].chunks[1].chunk_id = runs[2].chunks[1].chunk_id

----------------------------------------------------------------------------
(* Properties of _chunk_text and chunk_document *)

\* the chunks a finished call returned for one page of its document
ChunksOfPage(run, page) ==
    {i \in 1..Len(run.chunks) : run.chunks[i].page_number = page.page_number}

\* C11 as stated: no chunk returned by chunk_document is shorter than
\* min_chunk_size, and a page whose text is shorter than min_chunk_size
\* yields at most one chunk
C11_NoChunkBelowFloor ==
    \A r \in 1..Len(runs) :
        /\ \A i \in 1..Len(runs[r].chunks) :
              Len(runs[r].chunks[i].content) >= min_chunk_size
        /\ \A p \in 1..Len(runs[r].document.pages) :
              LET page == runs[r].document.pages[p]
              IN  Len(page.text) < min_chunk_size
                     => Cardinality(ChunksOfPage(runs[r], page)) <= 1

\* C11 amended: every chunk of a page whose text has at least min_chunk_size
\* characters has at least min_chunk_size characters; a page whose text is
\* shorter yields at most one chunk, and that chunk is the whole text as it
\* is, shorter than min_chunk_size
C11_FloorOnWindowedPages ==
    \A r \in 1..Len(runs) :
        \A p \in 1..Len(runs[r].document.pages) :
            LET page == runs[r].document.pages[p]
                own  == ChunksOfPage(runs[r], page)
            IN  IF Len(page.text) >= min_chunk_size
                THEN \A i \in own : Len(runs[r].chunks[i].content) >= min_chunk_size
                ELSE /\ Cardinality(own) <= 1
                     /\ \A i \in own : runs[r].chunks[i].content = page.text

\* a call returned one chunk for a page of several windows, one of which
\* was dropped for being shorter than min_chunk_size
C11_Witness ==
    \E r \in 1..Len(runs) :
        LET page == runs[r].document.pages[1]
        IN  /\ page.has_text
            /\ Len(page.text) > chunk_size
            /\ Len(runs[r].chunks) = 1
            /\ Len(runs[r].chunks[1].content) >= min_chunk_size
            /\ Len(runs[r].chunks[1].content) < Len(Strip(page.text)) - chunk_overlap

\* C12: every iteration of the window loop of _chunk_text that is followed
\* by another one moves the window start strictly forward, for every text
\* and every setting of chunk_size, chunk_overlap and min_chunk_size
C12_WindowsAdvance ==
    [][(ck_pc = "window" /\ ck_pc' = "window") => start' > start]_vars

\* the chunks of the current page lie in its text where spans says
SpansAreChunks ==
    /\ Len(spans) = Len(text_chunks)
    /\ \A k \in 1..Len(spans) :
          text_chunks[k] = SubSeq(document.pages[page_idx].text,
                                  spans[k].lo + 1, spans[k].hi)

\* the number of characters of the page text that lie both in the k-th and
\* in the next chunk of the page
SharedLength(k) ==
    IF spans[k].hi > spans[k + 1].lo THEN spans[k].hi - spans[k + 1].lo ELSE 0

\* C13: any two consecutive chunks of a page share at most chunk_overlap
\* characters of the page text (the end of the earlier, the start of the later)
C13_OverlapBound ==
    (ck_pc \in {"window", "emit"}) =>
        /\ SpansAreChunks
        /\ \A k \in 1..(Len(spans) - 1) : SharedLength(k) <= chunk_overlap

\* _chunk_text returned two chunks that share exactly chunk_overlap characters
C13_Witness ==
    /\ ck_pc = "emit"
    /\ Len(spans) = 2
    /\ chunk_overlap > 0
    /\ SharedLength(1) = chunk_overlap

\* the non-whitespace characters of the current page text that lie in none
\* of the given parts of it
Uncovered(parts) ==
    LET text == document.pages[page_idx].text
    IN  {i \in 1..Len(text) :
            /\ ~IsSpace(text[i])
            /\ \A k \in 1..Len(parts) : ~(parts[k].lo < i /\ i <= parts[k].hi)}

\* C14 as stated: every non-whitespace character of a page text lies in at
\* least one chunk _chunk_text returns, and no returned chunk is empty
C14_CoverageWithoutLoss ==
    (ck_pc = "emit") =>
        /\ Uncovered(spans) = {}
        /\ \A k \in 1..Len(text_chunks) : text_chunks[k] # <<>>

\* C14 amended: every non-whitespace character of a page text lies in a
\* returned chunk or in a window whose trimmed text is shorter than
\* min_chunk_size and was dropped, and no returned chunk is empty
C14_CoverageUpToDroppedWindows ==
    (ck_pc = "emit") =>
        /\ SpansAreChunks
        /\ Uncovered(spans \o dropped) = {}
        /\ \A k \in 1..Len(dropped) : dropped[k].hi - dropped[k].lo < min_chunk_size
        /\ \A k \in 1..Len(text_chunks) : text_chunks[k] # <<>>

\* _chunk_text returned a chunk and dropped a window that held a character
\* no returned chunk holds
C14_Witness ==
    /\ ck_pc = "emit"
    /\ text_chunks # <<>>
    /\ dropped # <<>>
    /\ Uncovered(spans) # {}

----------------------------------------------------------------------------
(* chunk_document on documents of several pages *)

\* most pages of a document of several pages
MaxDocPages == 3

\* page texts that give two chunks under windows of 6 characters
TwoChunkTexts ==
    {<<"a", "b", "c", "d", " ", "e", "f", "g">>,
     <<"a", "b", "c", "d", "e", "f", "g", "h">>}

\* ExtractedDocument of 1..MaxDocPages pages, numbered from 1 in page order,
\* any of them without text layer
PagedDocuments ==
    UNION {{[filename |-> f, source_url |-> StoredUrl(f),
             pages |-> [i \in 1..n |-> [page_number |-> i, text |-> t[i],
                                        has_text |-> h[i]]]] :
               f \in Filenames, t \in [1..n -> TwoChunkTexts],
               h \in [1..n -> BOOLEAN]} :
           n \in 1..MaxDocPages}

PagesInit ==
    /\ chunk_size = 6
    /\ chunk_overlap = 1
    /\ min_chunk_size = 2
    /\ document \in PagedDocuments
    /\ ck_pc = "next_page"
    /\ page_idx = 1
    /\ start = 0
    /\ text_chunks = <<>>
    /\ spans = <<>>
    /\ dropped = <<>>
    /\ all_chunks = <<>>
    /\ runs = <<>>
    /\ pc = "off"
    /\ score_threshold = SCORE_THRESHOLD
    /\ strict_grounding = TRUE
    /\ chunks = <<>>
    /\ gating_result = NoGating
    /\ PipeOff
    /\ IndexOff
    /\ EmbedOff
    /\ IngestOff
    /\ ServingOff

PagesNext ==
    \/ SkipPage
    \/ ChunkTextBegin
    \/ Window
    \/ EmitPage
    \/ ReturnChunks

SpecChunkPages == PagesInit /\ [][PagesNext]_vars

\* C15: chunk_document returns chunks of pages with has_text only, in page
\* order, numbered 0, 1, 2, ... without gaps within each page, each with the
\* filename and source_url of the document and the page_number of its page
C15_ChunksFollowPages ==
    \A r \in 1..Len(runs) :
        LET doc == runs[r].document
            cs  == runs[r].chunks
        IN  /\ \A i \in 1..Len(cs) :
                  /\ cs[i].source_file = doc.filename
                  /\ cs[i].source_url = doc.source_url
                  /\ \E p \in 1..Len(doc.pages) :
                        /\ doc.pages[p].page_number = cs[i].page_number
                        /\ doc.pages[p].has_text
                  /\ cs[i].chunk_index =
                        Cardinality({j \in 1..(i - 1) :
                                        cs[j].page_number = cs[i].page_number})
            /\ \A i, j \in 1..Len(cs) :
                  i < j => cs[i].page_number <= cs[j].page_number

\* a call returned the chunks 0 and 1 of page 1 and of page 3 of a document
\* whose page 2 has no text layer
C15_Witness ==
    /\ Len(runs) = 1
    /\ Len(runs[1].document.pages) = 3
    /\ ~runs[1].document.pages[2].has_text
    /\ Len(runs[1].chunks) = 4
    /\ runs[1].chunks[2].page_number = 1
    /\ runs[1].chunks[2].chunk_index = 1
    /\ runs[1].chunks[3].page_number = 3
    /\ runs[1].chunks[3].chunk_index = 0

----------------------------------------------------------------------------
(* Properties of _generate_chunk_id *)

\* the pairs of chunks of the finished calls that agree on filename, page
\* number and chunk index
SameKeyChunks ==
    {cc \in UNION {{<<runs[r1].chunks[i], runs[r2].chunks[j]>> :
                       i \in 1..Len(runs[r1].chunks),
                       j \in 1..Len(runs[r2].chunks)} :
                   r1 \in 1..Len(runs), r2 \in 1..Len(runs)} :
        /\ cc[1].source_file = cc[2].source_file
        /\ cc[1].page_number = cc[2].page_number
        /\ cc[1].chunk_index = cc[2].chunk_index}

\* C16 as stated: two chunks with the same filename, page number and chunk
\* index whose contents differ have different chunk_ids
C16_DifferentContentDifferentId ==
    \A cc \in SameKeyChunks :
        cc[1].content # cc[2].content => cc[1].chunk_id # cc[2].chunk_id

\* C16 amended: two chunks with the same filename, page number and chunk
\* index whose contents differ within their first 50 characters have
\* different chunk_ids
C16_DifferentPrefixDifferentId ==
    \A cc \in SameKeyChunks :
        Take(cc[1].content, ID_CONTENT_PREFIX) # Take(cc[2].content, ID_CONTENT_PREFIX)
            => cc[1].chunk_id # cc[2].chunk_id

\* two calls returned chunks of more than 50 characters for the same file,
\* page and index that differ at a character before the 50th
C16_Witness ==
    /\ Len(runs) = 2
    /\ Len(runs[1].chunks) = 1
    /\ Len(runs[2].chunks) = 1
    /\ <<runs[1].chunks[1], runs[2].chunks[1]>> \in SameKeyChunks
    /\ Len(runs[1].chunks[1].content) > ID_CONTENT_PREFIX
    /\ Len(runs[2].chunks[1].content) > ID_CONTENT_PREFIX
    /\ Take(runs[1].chunks[1].content, ID_CONTENT_PREFIX)
          # Take(runs[2].chunks[1].content, ID_CONTENT_PREFIX)
    /\ runs[1].chunks[1].chunk_id # runs[2].chunks[1].chunk_id

----------------------------------------------------------------------------
(* RAGService._build_citations on any list of retrieved chunks *)

\* longest list of retrieved chunks given to _build_citations
MaxCiteChunks == 3

\* a text of n characters: "a" but for the characters that marks gives for
\* some 0-based offsets
MarkedAt(n, marks) ==
    [i \in 1..n |-> IF (i - 1) \in DOMAIN marks THEN marks[i - 1] ELSE "a"]

NoMarks == [i \in {} |-> " "]

\* 70% of the snippet limit, the offset a space has to exceed to be cut at
SNIPPET_SPACE_FLOOR == 140
\* the snippet limit less the three characters of the ellipsis
SNIPPET_HEAD == 197

\* chunk contents around the snippet limit: of the limit's length and just
\* beyond, without whitespace, and with whitespace at, after and near the
\* 70% mark and at the end of the first 197 characters
LongContents ==
    {MarkedAt(SNIPPET_MAX_LENGTH, (SNIPPET_SPACE_FLOOR + 1) :> " "),
     MarkedAt(SNIPPET_MAX_LENGTH + 1, NoMarks),
     MarkedAt(SNIPPET_MAX_LENGTH + 1, SNIPPET_SPACE_FLOOR :> " "),
     MarkedAt(SNIPPET_MAX_LENGTH + 1, (SNIPPET_SPACE_FLOOR + 1) :> " "),
     MarkedAt(SNIPPET_MAX_LENGTH + 1, (SNIPPET_HEAD - 1) :> " "),
     MarkedAt(SNIPPET_MAX_LENGTH + 1,
              (SNIPPET_HEAD - 2) :> " " @@ (SNIPPET_HEAD - 1) :> " "),
     MarkedAt(SNIPPET_MAX_LENGTH + 1, (SNIPPET_HEAD - 1) :> "\n"),
     MarkedAt(SNIPPET_MAX_LENGTH + 1, SNIPPET_HEAD :> " "),
     MarkedAt(SNIPPET_MAX_LENGTH + 60,
              [i \in 1..(SNIPPET_MAX_LENGTH + 59) |-> " "])}

\* records of the index on two pages of one file, on one page twice, and
\* without page number
CiteRecords ==
    {[chunk_id |-> "c1", source_file |-> "a.pdf", page_number |-> 1,
      content |-> <<"x">>],
     [chunk_id |-> "c2", source_file |-> "a.pdf", page_number |-> 1,
      content |-> <<"y">>],
     [chunk_id |-> "c4", source_file |-> "a.pdf", page_number |-> 2,
      content |-> <<"z">>],
     [chunk_id |-> "c3", source_file |-> "b.pdf", page_number |-> NoPage,
      content |-> <<"w">>]}

\* records of the index with contents around the snippet limit
LongRecords ==
    {[chunk_id |-> "c5", source_file |-> "a.pdf", page_number |-> 1,
      content |-> t] : t \in LongContents}

\* the lists _build_citations is given: any list of up to MaxCiteChunks
\* records, and each long record alone
CiteInputs ==
    UNION {[1..n -> {RetrievedChunk(r, SCORE_THRESHOLD) : r \in CiteRecords}] :
           n \in 0..MaxCiteChunks}
    \cup {<<RetrievedChunk(r, SCORE_THRESHOLD)>> : r \in LongRecords}

\* _build_citations is about to be called on a list, and its result returned
\* as answer_question returns it
CiteInit ==
    /\ pc = "generated"
    /\ score_threshold = SCORE_THRESHOLD
    /\ strict_grounding = FALSE
    /\ question = <<"a">>
    /\ conversation_history = [present |-> FALSE, msgs |-> <<>>]
    /\ embed_faults = 0
    /\ index_fault = FALSE
    /\ search_query = <<"a">>
    /\ attempts = 0
    /\ chunks \in CiteInputs
    /\ gating_result = NoGating
    /\ answer = "generated answer"
    /\ cite_idx = 0
    /\ seen = {}
    /\ citations = <<>>
    /\ response = NoResponse
    /\ calls = <<>>
    /\ ChunkOff
    /\ IndexOff
    /\ EmbedOff
    /\ IngestOff
    /\ ServingOff

CiteNext ==
    \/ BuildCitations
    \/ CiteChunk
    \/ ReturnAnswer

SpecCite == CiteInit /\ [][CiteNext]_vars

----------------------------------------------------------------------------
(* Properties of _build_citations *)

\* the chunks the loop of _build_citations has gone through
Visited == IF pc = "done" THEN Len(chunks) ELSE cite_idx - 1

CiteKey(i) == <<chunks[i].metadata.source_file, chunks[i].metadata.page_number>>

\* the visited chunks that are the first of the list with their
\* (source_file, page_number) pair
FirstOfPair == {i \in 1..Visited : \A j \in 1..(i - 1) : CiteKey(j) # CiteKey(i)}

\* the k-th of them in list order
KthFirst(k) == CHOOSE i \in FirstOfPair : Cardinality({j \in FirstOfPair : j <= i}) = k

\* C17: _build_citations returns exactly one citation per distinct
\* (source_file, page_number) pair of the list, in the order in which the
\* pairs first appear, each built from the first chunk with its pair
C17_OneCitationPerPair ==
    (pc \in {"citing", "done"}) =>
        /\ Len(citations) = Cardinality(FirstOfPair)
        /\ \A k \in 1..Len(citations) :
              LET chunk == chunks[KthFirst(k)]
              IN  /\ citations[k].source_file = chunk.metadata.source_file
                  /\ citations[k].page_number = chunk.metadata.page_number
                  /\ Len(chunk.content) <= SNIPPET_MAX_LENGTH
                        => citations[k].snippet = chunk.content
        /\ pc = "done" => response.citations = citations

\* three chunks, the first two of one page with different contents and the
\* third of another page of the same file, gave two citations
C17_Witness ==
    /\ pc = "done"
    /\ Len(chunks) = 3
    /\ CiteKey(1) = CiteKey(2)
    /\ chunks[1].content # chunks[2].content
    /\ CiteKey(3)[1] = CiteKey(1)[1]
    /\ CiteKey(3)[2] # CiteKey(1)[2]
    /\ Len(response.citations) = 2
    /\ response.citations[1].snippet = chunks[1].content

\* the entry of the log for the generate_sas_url call of the k-th citation
SasCall(k) ==
    calls[CHOOSE i \in CallsOf("sas") :
             Cardinality({j \in CallsOf("sas") : j <= i}) = k]

\* the URL generate_sas_url returned for a chunk, with the page anchor that
\* _build_citations appends when the chunk has a page number
FreshUrl(chunk) ==
    [base |-> "sas", file |-> chunk.metadata.source_file,
     page_anchor |-> chunk.metadata.page_number]

CutAtWord(content) ==
    LET head   == SubSeq(content, 1, SNIPPET_HEAD)
        spaces == {i \in 0..(SNIPPET_HEAD - 1) : head[i + 1] = " "}
    IN  IF spaces # {} /\ Max(spaces) > SNIPPET_SPACE_FLOOR
        THEN SubSeq(head, 1, Max(spaces))
        ELSE head

\* snip is body without its trailing whitespace, followed by "..."
IsTrimmedWithEllipsis(snip, body) ==
    \E n \in 0..Len(body) :
        /\ snip = SubSeq(body, 1, n) \o <<".", ".", ".">>
        /\ n > 0 => ~IsSpace(body[n])
        /\ \A j \in (n + 1)..Len(body) : IsSpace(body[j])

\* C19: every citation snippet has at most 200 characters: a content of at
\* most 200 characters is the snippet as it is, a longer one is cut to its
\* first 197 characters, shortened to the last space when that is at an
\* offset above 140, stripped of trailing whitespace and followed by "..."
C19_SnippetWithinLimit ==
    (pc \in {"citing", "done"}) =>
        \A k \in 1..Len(citations) :
            LET content == chunks[KthFirst(k)].content
                snip    == citations[k].snippet
            IN  /\ Len(snip) <= SNIPPET_MAX_LENGTH
                /\ IF Len(content) <= SNIPPET_MAX_LENGTH
                   THEN snip = content
                   ELSE IsTrimmedWithEllipsis(snip, CutAtWord(content))

\* a content of more than 200 characters was cut at a space after offset 140
\* and before the end of the first 197 characters
C19_Witness ==
    /\ pc = "done"
    /\ Len(response.citations) = 1
    /\ Len(chunks[1].content) > SNIPPET_MAX_LENGTH
    /\ Len(response.citations[1].snippet) > SNIPPET_SPACE_FLOOR + 3
    /\ Len(response.citations[1].snippet) < SNIPPET_HEAD

----------------------------------------------------------------------------
(* SearchService.index_chunks: backend/app/services/search_service.py *)

\* most batches of one index_chunks call
MaxIndexBatches == 3

\* batch_size = 100
BATCH_SIZE == 100

\* len(chunks) of a call: none, and full batches less 0, 50 or 99 chunks
IndexSizes ==
    {0} \cup {k * BATCH_SIZE - d : k \in 1..MaxIndexBatches, d \in {0, 50, 99}}

\* documents[i:i + batch_size], as the 0-based positions of its documents
Batch(i, n) == {k \in i..(i + BATCH_SIZE - 1) : k < n}

\* what upload_documents does with a batch: raises, or returns one result per
\* document with succeeded false for none, the first, the last or all of them
UploadOutcomes(batch) ==
    {[raises |-> TRUE, failed_keys |-> {}]} \cup
    {[raises |-> FALSE, failed_keys |-> ks] :
        ks \in {{}, {Min(batch)}, {Max(batch)}, batch}}

\* the entries of errors: f"Failed to index {r.key}: {r.error_message}" and
\* f"Batch upload error: {type(e).__name__}"
ItemError(key) == [kind |-> "Failed to index", key |-> key]
BatchError == [kind |-> "Batch upload error", key |-> -1]

RECURSIVE ItemErrors(_)
\* the entries appended for the failed results of one batch, in result order
ItemErrors(keys) ==
    IF keys = {} THEN <<>>
    ELSE <<ItemError(Min(keys))>> \o ItemErrors(keys \ {Min(keys)})

\* index_chunks is called with len(chunks) chunks and as many embeddings, or
\* one embedding more
IndexInit ==
    /\ ix_pc = "call"
    /\ num_chunks \in IndexSizes
    /\ num_embeddings \in {num_chunks, num_chunks + 1}
    /\ batch_start = 0
    /\ succeeded = 0
    /\ failed = 0
    /\ errors = <<>>
    /\ uploads = <<>>
    /\ index_stats = NoIndexStats
    /\ pc = "off"
    /\ score_threshold = SCORE_THRESHOLD
    /\ strict_grounding = TRUE
    /\ chunks = <<>>
    /\ gating_result = NoGating
    /\ PipeOff
    /\ ChunkOff
    /\ EmbedOff
    /\ IngestOff
    /\ ServingOff

\* if len(chunks) != len(embeddings): raise ValueError
IndexRejects ==
    /\ ix_pc = "call"
    /\ num_chunks # num_embeddings
    /\ ix_pc' = "raised"
    /\ UNCHANGED <<embedVars, ingestVars, servingVars,
                   pipeVars, chunkVars, num_chunks, num_embeddings, batch_start,
                   succeeded, failed, errors, uploads, index_stats>>

\* documents = [...]; errors = []; succeeded = 0; failed = 0
IndexBegin ==
    /\ ix_pc = "call"
    /\ num_chunks = num_embeddings
    /\ batch_start' = 0
    /\ succeeded' = 0
    /\ failed' = 0
    /\ errors' = <<>>
    /\ ix_pc' = "batch"
    /\ UNCHANGED <<embedVars, ingestVars, servingVars,
                   pipeVars, chunkVars, num_chunks, num_embeddings, uploads,
                   index_stats>>

\* the batch loop ending at the first upload that raises
UploadBatch_stops_on_failure ==
    /\ ix_pc = "batch"
    /\ batch_start < num_chunks
    /\ LET batch == Batch(batch_start, num_chunks)
       IN  \E out \in UploadOutcomes(batch) :
              /\ uploads' = Append(uploads, [first |-> batch_start,
                                             size |-> Cardinality(batch),
                                             raised |-> out.raises,
                                             num_failed |-> Cardinality(out.failed_keys)])
              /\ IF out.raises
                 THEN /\ failed' = failed + Cardinality(batch)
                      /\ errors' = Append(errors, BatchError)
                      /\ batch_start' = num_chunks
                      /\ UNCHANGED succeeded
                 ELSE /\ succeeded' = succeeded + Cardinality(batch \ out.failed_keys)
                      /\ failed' = failed + Cardinality(out.failed_keys)
                      /\ errors' = errors \o ItemErrors(out.failed_keys)
                      /\ batch_start' = batch_start + BATCH_SIZE
    /\ UNCHANGED <<embedVars, ingestVars, servingVars,
                   pipeVars, chunkVars, ix_pc, num_chunks, num_embeddings, index_stats>>

\* the batch loop counting a raising upload as one failure
UploadBatch_raise_counts_one ==
    /\ ix_pc = "batch"
    /\ batch_start < num_chunks
    /\ LET batch == Batch(batch_start, num_chunks)
       IN  \E out \in UploadOutcomes(batch) :
              /\ uploads' = Append(uploads, [first |-> batch_start,
                                             size |-> Cardinality(batch),
                                             raised |-> out.raises,
                                             num_failed |-> Cardinality(out.failed_keys)])
              /\ IF out.raises
                 THEN /\ failed' = failed + 1
                      /\ errors' = Append(errors, BatchError)
                      /\ UNCHANGED succeeded
                 ELSE /\ succeeded' = succeeded + Cardinality(batch \ out.failed_keys)
                      /\ failed' = failed + Cardinality(out.failed_keys)
                      /\ errors' = errors \o ItemErrors(out.failed_keys)
    /\ batch_start' = batch_start + BATCH_SIZE
    /\ UNCHANGED <<embedVars, ingestVars, servingVars,
                   pipeVars, chunkVars, ix_pc, num_chunks, num_embeddings, index_stats>>

\* one iteration of the batch loop
UploadBatch ==
    /\ ix_pc = "batch"
    /\ batch_start < num_chunks
    /\ LET batch == Batch(batch_start, num_chunks)
       IN  \E out \in UploadOutcomes(batch) :
              /\ uploads' = Append(uploads, [first |-> batch_start,
                                             size |-> Cardinality(batch),
                                             raised |-> out.raises,
                                             num_failed |-> Cardinality(out.failed_keys)])
              /\ IF out.raises
                 THEN /\ failed' = failed + Cardinality(batch)
                      /\ errors' = Append(errors, BatchError)
                      /\ UNCHANGED succeeded
                 ELSE /\ succeeded' = succeeded + Cardinality(batch \ out.failed_keys)
                      /\ failed' = failed + Cardinality(out.failed_keys)
                      /\ errors' = errors \o ItemErrors(out.failed_keys)
    /\ batch_start' = batch_start + BATCH_SIZE
    /\ UNCHANGED <<embedVars, ingestVars, servingVars,
                   pipeVars, chunkVars, ix_pc, num_chunks, num_embeddings, index_stats>>

\* return IndexStats(...)
IndexReturn ==
    /\ ix_pc = "batch"
    /\ batch_start >= num_chunks
    /\ index_stats' = IndexStats(num_chunks, succeeded, failed, errors)
    /\ ix_pc' = "returned"
    /\ UNCHANGED <<embedVars, ingestVars, servingVars,
                   pipeVars, chunkVars, num_chunks, num_embeddings, batch_start,
                   succeeded, failed, errors, uploads>>

IndexNext ==
    \/ IndexRejects
    \/ IndexBegin
    \/ UploadBatch
    \/ IndexReturn

SpecIndex == IndexInit /\ [][IndexNext]_vars

\* C20: index_chunks uploads the documents in consecutive batches of at most
\* 100, in order, each attempted whatever happened to the batches before it:
\* a call on n chunks that gets past the length test has made exactly
\* ceil(n / 100) uploads when it returns
C20_EveryBatchAttempted ==
    /\ \A k \in 1..Len(uploads) :
          /\ uploads[k].first = (k - 1) * BATCH_SIZE
          /\ uploads[k].size >= 1
          /\ uploads[k].size <= BATCH_SIZE
          /\ uploads[k].size = BATCH_SIZE \/ uploads[k].first + uploads[k].size = num_chunks
    /\ ix_pc = "batch" => batch_start = Len(uploads) * BATCH_SIZE
    /\ ix_pc = "returned" =>
          /\ Len(uploads) * BATCH_SIZE >= num_chunks
          /\ (Len(uploads) - 1) * BATCH_SIZE < num_chunks
          /\ index_stats.num_documents = num_chunks

\* a call on more than 200 chunks returned after three uploads, the first of
\* which raised and the second of which reported failed items
C20_Witness ==
    /\ ix_pc = "returned"
    /\ Len(uploads) = 3
    /\ uploads[1].raised
    /\ ~uploads[2].raised
    /\ uploads[2].num_failed > 0
    /\ uploads[3].size < BATCH_SIZE

RECURSIVE FailedIn(_)
\* the failures the uploads made so far account for: the whole size of a batch
\* whose upload raised, the failed results of a batch whose upload returned
FailedIn(ups) ==
    IF ups = <<>> THEN 0
    ELSE (IF ups[1].raised THEN ups[1].size ELSE ups[1].num_failed)
         + FailedIn(Tail(ups))

RECURSIVE SizeOf(_)
\* the number of documents in the batches uploaded so far
SizeOf(ups) == IF ups = <<>> THEN 0 ELSE ups[1].size + SizeOf(Tail(ups))

\* every document of every batch uploaded so far is counted once
C21_Counted ==
    /\ ix_pc = "batch" =>
          /\ failed = FailedIn(uploads)
          /\ succeeded + failed = SizeOf(uploads)
    /\ ix_pc = "returned" =>
          /\ index_stats.num_documents = num_chunks
          /\ index_stats.num_succeeded + index_stats.num_failed = num_chunks
          /\ index_stats.num_failed = FailedIn(uploads)
          /\ index_stats.num_succeeded = succeeded
          /\ index_stats.num_failed = failed

\* an iteration of the batch loop adds the size of its batch to the two counts
\* and takes nothing from either
C21_Kept ==
    (ix_pc = "batch" /\ ix_pc' = "batch") =>
        /\ succeeded' >= succeeded
        /\ failed' >= failed
        /\ (succeeded' + failed') - (succeeded + failed)
               = Cardinality(Batch(batch_start, num_chunks))

\* C21: when index_chunks returns, num_documents is the number of chunks passed
\* in and num_succeeded + num_failed = num_documents; every document is counted
\* once, a batch whose upload raises adds its whole size to num_failed, and no
\* later batch lowers a count recorded for an earlier one
C21_CountsAddUp == []C21_Counted /\ [][C21_Kept]_vars

\* a call on 150 chunks returned 100 succeeded and 50 failed: the first upload
\* succeeded and the second raised
C21_Witness ==
    /\ ix_pc = "returned"
    /\ num_chunks = 150
    /\ Len(uploads) = 2
    /\ ~uploads[1].raised /\ uploads[1].num_failed = 0
    /\ uploads[2].raised
    /\ index_stats.num_succeeded = 100
    /\ index_stats.num_failed = 50

----------------------------------------------------------------------------
(* EmbedService.embed_texts *)

MaxEmbedBatches == 6

\* batch_size: int = 16
EMBED_BATCH_SIZE == 16

\* len(texts) of a call: none, and full sub-batches less 0, 8 or 15 texts
EmbedSizes ==
    {0} \cup {k * EMBED_BATCH_SIZE - d : k \in 1..MaxEmbedBatches, d \in {0, 8, 15}}

\* len(texts[i:i + batch_size])
SubBatchSize(i, n) == IF n - i < EMBED_BATCH_SIZE THEN n - i ELSE EMBED_BATCH_SIZE

\* embed_texts is called with a list of texts
EmbedInit ==
    /\ em_pc = "call"
    /\ em_total \in EmbedSizes
    /\ em_start = 0
    /\ em_count = 0
    /\ em_calls = <<>>
    /\ pc = "off"
    /\ score_threshold = SCORE_THRESHOLD
    /\ strict_grounding = TRUE
    /\ chunks = <<>>
    /\ gating_result = NoGating
    /\ PipeOff
    /\ ChunkOff
    /\ IndexOff
    /\ IngestOff
    /\ ServingOff

\* if not texts: return []; all_embeddings = []
EmbedTextsBegin ==
    /\ em_pc = "call"
    /\ em_start' = 0
    /\ em_count' = 0
    /\ em_pc' = IF em_total = 0 THEN "returned" ELSE "batch"
    /\ UNCHANGED <<pipeVars, chunkVars, indexVars, ingestVars, servingVars,
                   em_total, em_calls>>

\* one iteration of the sub-batch loop: one embeddings.create call, whose
\* failure is logged and raised again
EmbedSubBatch ==
    /\ em_pc = "batch"
    /\ em_start < em_total
    /\ \E ok \in BOOLEAN :
          /\ em_calls' = Append(em_calls,
                                [first |-> em_start,
                                 size |-> SubBatchSize(em_start, em_total),
                                 ok |-> ok])
          /\ IF ok
             THEN /\ em_count' = em_count + SubBatchSize(em_start, em_total)
                  /\ em_start' = em_start + EMBED_BATCH_SIZE
                  /\ UNCHANGED em_pc
             ELSE /\ em_pc' = "raised"
                  /\ UNCHANGED <<em_count, em_start>>
    /\ UNCHANGED <<pipeVars, chunkVars, indexVars, ingestVars, servingVars, em_total>>

\* return all_embeddings
EmbedTextsReturn ==
    /\ em_pc = "batch"
    /\ em_start >= em_total
    /\ em_pc' = "returned"
    /\ UNCHANGED <<pipeVars, chunkVars, indexVars, ingestVars, servingVars,
                   em_total, em_start, em_count, em_calls>>

EmbedNext ==
    \/ EmbedTextsBegin
    \/ EmbedSubBatch
    \/ EmbedTextsReturn

SpecEmbed == EmbedInit /\ [][EmbedNext]_vars

\* the embeddings.create calls embed_texts made for the sub-batch at first
AttemptsOf(first) ==
    Cardinality({k \in 1..Len(em_calls) : em_calls[k].first = first})

\* C23: every embedding call, the query embedding of embed_text and each
\* sub-batch call of embed_texts, is attempted again after a failure until
\* one attempt succeeds or 3 attempts have failed, is never attempted more
\* than 3 times, and surfaces its failure only after the third failed attempt
C23_EveryEmbeddingCallRetried ==
    /\ attempts <= MAX_EMBED_ATTEMPTS
    /\ \A k \in 1..Len(em_calls) : AttemptsOf(em_calls[k].first) <= MAX_EMBED_ATTEMPTS
    /\ em_pc = "raised" =>
          AttemptsOf(em_calls[Len(em_calls)].first) = MAX_EMBED_ATTEMPTS

----------------------------------------------------------------------------
(* ingest_documents *)

MaxIngestDocs == 2

\* has_text = bool(cleaned_text and len(cleaned_text.strip()) > 10)
HAS_TEXT_FLOOR == 10

\* for error in stats.errors[:5]
MAX_INDEX_ERROR_DETAILS == 5

\* clean_text keeping the text as it was extracted
clean_text_as_extracted(text) == text

\* clean_text: every run of whitespace becomes one space, then strip()
clean_text(text) ==
    LET marked == [i \in 1..Len(text) |->
                      IF ~IsSpace(text[i]) THEN text[i]
                      ELSE IF i > 1 /\ IsSpace(text[i - 1]) THEN "" ELSE " "]
    IN  Strip(SelectSeq(marked, LAMBDA c : c # ""))

RECURSIVE WindowChunks(_, _, _, _, _)
\* the chunks the while loop of _chunk_text appends from the window that
\* starts at start_ (0-based) on
WindowChunks(text, start_, size, overlap, min_size) ==
    LET break_point == BreakPoint(text, start_, size)
        chunk       == Strip(SubSeq(text, start_ + 1, break_point))
        kept        == IF KeepsChunk(chunk, min_size) THEN <<chunk>> ELSE <<>>
        next_start  == NextStart(break_point, overlap)
    IN  IF start_ >= Len(text) THEN <<>>
        ELSE IF start_ + size >= Len(text) \/ next_start >= Len(text) THEN kept
        ELSE kept \o WindowChunks(text, next_start, size, overlap, min_size)

\* _chunk_text(text)
chunk_text(text, size, overlap, min_size) ==
    IF IsShortText(text, min_size) THEN ShortTextChunks(text)
    ELSE WindowChunks(text, 0, size, overlap, min_size)

\* n times the character c
Chars(c, n) == [i \in 1..n |-> c]

\* text of pages as PyMuPDF hands it over: nothing, a page number, a line
\* with a double space and a line break, twelve letters followed by 1100
\* spaces, and 1100 letters
BlankPage == <<>>
NumberPage == <<"p", "a", "g", "e", " ", "1", "\n">>
LinePage == <<"h", "e", "l", "l", "o", " ", " ", "w", "o", "r", "l", "d", "\n", "o", "k">>
PaddedPage == Chars("a", 12) \o Chars(" ", 1100)
SolidPage == Chars("a", 1100)

\* the PDFs of the container: one fitz cannot open, a scan without text, a
\* page of padded text, a page longer than a window, and a report of 17 pages
IngestDocs ==
    {[filename |-> "broken.pdf", readable |-> FALSE, raw_pages |-> <<>>],
     [filename |-> "scanned.pdf", readable |-> TRUE,
      raw_pages |-> <<BlankPage, NumberPage>>],
     [filename |-> "padded.pdf", readable |-> TRUE, raw_pages |-> <<PaddedPage>>],
     [filename |-> "solid.pdf", readable |-> TRUE, raw_pages |-> <<SolidPage>>],
     [filename |-> "report.pdf", readable |-> TRUE,
      raw_pages |-> [i \in 1..17 |-> LinePage]]}

\* the lists download_all_pdfs can return
BlobLists == UNION {[1..n -> IngestDocs] : n \in 0..MaxIngestDocs}

\* the pages extract_text builds for a PDF it can open
ExtractedPages(doc) ==
    [i \in 1..Len(doc.raw_pages) |->
        LET cleaned_text == clean_text(doc.raw_pages[i])
        IN  [page_number |-> i, text |-> cleaned_text,
             has_text |-> Len(Strip(cleaned_text)) > HAS_TEXT_FLOOR]]

\* has_extractable_text: pages_with_text > 0
HasExtractableText(pages) == \E i \in 1..Len(pages) : pages[i].has_text

RECURSIVE CountChunks(_, _)
\* len(chunk_document(extracted)) over the pages from the i-th on, under
\* ChunkService()
CountChunks(pages, i) ==
    IF i > Len(pages) THEN 0
    ELSE (IF pages[i].has_text
          THEN Len(chunk_text(pages[i].text, DEFAULT_CHUNK_SIZE,
                              DEFAULT_CHUNK_OVERLAP, DEFAULT_MIN_CHUNK_SIZE))
          ELSE 0)
         + CountChunks(pages, i + 1)

\* what the loop body of ingest_documents finds for each PDF: whether
\* extract_text raises, whether the document has extractable text, and how
\* many chunks chunk_document returns for it
Processed ==
    [doc \in IngestDocs |->
        IF ~doc.readable
        THEN [raises |-> TRUE, has_text |-> FALSE, num_chunks |-> 0]
        ELSE LET pages == ExtractedPages(doc)
             IN  [raises |-> FALSE,
                  has_text |-> HasExtractableText(pages),
                  num_chunks |-> CountChunks(pages, 1)]]
\* an entry of details: the fixed part of its text and what is formatted in
Detail(msg, arg) == [msg |-> msg, arg |-> arg]

\* IngestResponse(success, num_pdfs_processed, num_chunks_indexed,
\* num_failures, message, details)
IngestResponse(success, pdfs, indexed, failures, message, dets) ==
    [returned |-> TRUE, success |-> success, num_pdfs_processed |-> pdfs,
     num_chunks_indexed |-> indexed, num_failures |-> failures,
     message |-> message, details |-> dets]

\* an entry of the log of service calls: the call, whether it returned, and
\* the lengths of the lists it was given and gave back
ServiceCall(name, ok, given, gave) ==
    [call |-> name, ok |-> ok, given |-> given, gave |-> gave]

\* a POST /api/ingest arrives
IngestInit ==
    /\ ing_pc = "start"
    /\ force_reindex \in BOOLEAN
    /\ blobs \in BlobLists
    /\ documents = <<>>
    /\ doc_idx = 0
    /\ num_pdfs = 0
    /\ num_all_chunks = 0
    /\ num_failures = 0
    /\ details = <<>>
    /\ ing_response = NoIngestResponse
    /\ ing_calls = <<>>
    /\ pc = "off"
    /\ score_threshold = SCORE_THRESHOLD
    /\ strict_grounding = TRUE
    /\ chunks = <<>>
    /\ gating_result = NoGating
    /\ PipeOff
    /\ ChunkOff
    /\ IndexOff
    /\ EmbedOff
    /\ ServingOff

\* the except branch of ingest_documents: raise HTTPException(500)
IngestFails ==
    /\ ing_pc' = "http_500"
    /\ UNCHANGED ing_response

\* if request.force_reindex: try delete_index() except: details.append(...)
DeleteIndex ==
    /\ ing_pc = "start"
    /\ force_reindex
    /\ \E ok \in BOOLEAN :
          /\ ing_calls' = Append(ing_calls, ServiceCall("delete_index", ok, 0, 0))
          /\ details' = Append(details,
                IF ok THEN Detail("Deleted existing search index", 0)
                ELSE Detail("No existing index to delete", 0))
    /\ ing_pc' = "create"
    /\ UNCHANGED <<pipeVars, chunkVars, indexVars, embedVars, servingVars,
                   force_reindex, blobs, documents, doc_idx, num_pdfs,
                   num_all_chunks, num_failures, ing_response>>

\* request.force_reindex is false
SkipDelete ==
    /\ ing_pc = "start"
    /\ ~force_reindex
    /\ ing_pc' = "create"
    /\ UNCHANGED <<pipeVars, chunkVars, indexVars, embedVars, servingVars,
                   force_reindex, blobs, documents, doc_idx, num_pdfs,
                   num_all_chunks, num_failures, details, ing_response, ing_calls>>

\* the ingest run going on to the container after create_or_update_index
\* raised
CreateIndex_ignores_failure ==
    /\ ing_pc = "create"
    /\ \E ok \in BOOLEAN :
          /\ ing_calls' = Append(ing_calls,
                                 ServiceCall("create_or_update_index", ok, 0, 0))
          /\ details' = Append(details, Detail("Search index created/updated", 0))
          /\ ing_pc' = "download"
          /\ UNCHANGED ing_response
    /\ UNCHANGED <<pipeVars, chunkVars, indexVars, embedVars, servingVars,
                   force_reindex, blobs, documents, doc_idx, num_pdfs,
                   num_all_chunks, num_failures>>

\* search_service.create_or_update_index(), which raises what the index
\* client raises
CreateIndex ==
    /\ ing_pc = "create"
    /\ \E ok \in BOOLEAN :
          /\ ing_calls' = Append(ing_calls,
                                 ServiceCall("create_or_update_index", ok, 0, 0))
          /\ IF ok
             THEN /\ details' = Append(details, Detail("Search index created/updated", 0))
                  /\ ing_pc' = "download"
                  /\ UNCHANGED ing_response
             ELSE /\ IngestFails
                  /\ UNCHANGED details
    /\ UNCHANGED <<pipeVars, chunkVars, indexVars, embedVars, servingVars,
                   force_reindex, blobs, documents, doc_idx, num_pdfs,
                   num_all_chunks, num_failures>>

\* documents = blob_service.download_all_pdfs(), which raises when the
\* container cannot be listed, and the return for an empty container
DownloadAll ==
    /\ ing_pc = "download"
    /\ \E ok \in BOOLEAN :
          /\ ing_calls' = Append(ing_calls,
                ServiceCall("download_all_pdfs", ok, 0, IF ok THEN Len(blobs) ELSE 0))
          /\ IF ~ok
             THEN /\ IngestFails
                  /\ UNCHANGED <<documents, num_pdfs, details, doc_idx>>
             ELSE /\ documents' = blobs
                  /\ num_pdfs' = Len(blobs)
                  /\ details' = Append(details, Detail("Downloaded PDFs", Len(blobs)))
                  /\ doc_idx' = 1
                  /\ IF Len(blobs) = 0
                     THEN /\ ing_response' = IngestResponse(TRUE, 0, 0, 0,
                                 "No PDFs found in blob storage container", details')
                          /\ ing_pc' = "returned"
                     ELSE /\ ing_pc' = "documents"
                          /\ UNCHANGED ing_response
    /\ UNCHANGED <<pipeVars, chunkVars, indexVars, embedVars, servingVars,
                   force_reindex, blobs, num_all_chunks, num_failures>>

\* one iteration of the loop over documents
ProcessDocument ==
    /\ ing_pc = "documents"
    /\ doc_idx <= Len(documents)
    /\ LET doc   == documents[doc_idx]
           found == Processed[doc]
       IN  IF found.raises
           THEN /\ ing_calls' = Append(ing_calls, ServiceCall("extract_text", FALSE, 1, 0))
                /\ details' = Append(details, Detail("Failed to process", doc.filename))
                /\ num_failures' = num_failures + 1
                /\ UNCHANGED num_all_chunks
           ELSE IF ~found.has_text
           THEN /\ ing_calls' = Append(ing_calls, ServiceCall("extract_text", TRUE, 1, 1))
                /\ details' = Append(details, Detail("Skipped - no extractable text",
                                                     doc.filename))
                /\ num_failures' = num_failures + 1
                /\ UNCHANGED num_all_chunks
           ELSE /\ ing_calls' =
                      ing_calls \o <<ServiceCall("extract_text", TRUE, 1, 1),
                                     ServiceCall("chunk_document", TRUE, 1, found.num_chunks)>>
                /\ details' = Append(details, Detail("Processed", doc.filename))
                /\ num_all_chunks' = num_all_chunks + found.num_chunks
                /\ UNCHANGED num_failures
    /\ doc_idx' = doc_idx + 1
    /\ UNCHANGED <<pipeVars, chunkVars, indexVars, embedVars, servingVars,
                   ing_pc, force_reindex, blobs, documents, num_pdfs, ing_response>>

\* if not all_chunks: return IngestResponse(success=True, ...)
ReturnNoChunks ==
    /\ ing_pc = "documents"
    /\ doc_idx > Len(documents)
    /\ num_all_chunks = 0
    /\ ing_response' = IngestResponse(TRUE, num_pdfs, 0, num_failures,
                                      "No text chunks extracted from PDFs", details)
    /\ ing_pc' = "returned"
    /\ UNCHANGED <<pipeVars, chunkVars, indexVars, embedVars, servingVars,
                   force_reindex, blobs, documents, doc_idx, num_pdfs,
                   num_all_chunks, num_failures, details, ing_calls>>

\* embed_service.embed_texts(chunk_texts) is entered
CallEmbedTexts ==
    /\ ing_pc = "documents"
    /\ doc_idx > Len(documents)
    /\ num_all_chunks > 0
    /\ details' = Append(details, Detail("Generating embeddings", num_all_chunks))
    /\ em_pc' = "call"
    /\ em_total' = num_all_chunks
    /\ ing_pc' = "embedding"
    /\ UNCHANGED <<pipeVars, chunkVars, indexVars, servingVars, em_start, em_count,
                   em_calls, force_reindex, blobs, documents, doc_idx, num_pdfs,
                   num_all_chunks, num_failures, ing_response, ing_calls>>

\* embed_texts raised
EmbedTextsRaised ==
    /\ ing_pc = "embedding"
    /\ em_pc = "raised"
    /\ ing_calls' = Append(ing_calls, ServiceCall("embed_texts", FALSE, em_total, 0))
    /\ IngestFails
    /\ UNCHANGED <<pipeVars, chunkVars, indexVars, embedVars, servingVars,
                   force_reindex, blobs, documents, doc_idx, num_pdfs,
                   num_all_chunks, num_failures, details>>

\* embed_texts returned: search_service.index_chunks(all_chunks, embeddings)
\* is entered
CallIndexChunks ==
    /\ ing_pc = "embedding"
    /\ em_pc = "returned"
    /\ details' = Append(details, Detail("Generated embeddings", em_count))
    /\ ing_calls' = ing_calls \o
          <<ServiceCall("embed_texts", TRUE, em_total, em_count),
            ServiceCall("index_chunks", TRUE, num_all_chunks, em_count)>>
    /\ ix_pc' = "call"
    /\ num_chunks' = num_all_chunks
    /\ num_embeddings' = em_count
    /\ ing_pc' = "indexing"
    /\ UNCHANGED <<pipeVars, chunkVars, embedVars, servingVars, batch_start,
                   succeeded, failed, errors, uploads, index_stats, force_reindex,
                   blobs, documents, doc_idx, num_pdfs, num_all_chunks,
                   num_failures, ing_response>>

\* the details reporting every entry of stats.errors
IndexErrorDetails_all(errs) ==
    [k \in 1..Len(errs) |-> Detail("Index error", errs[k])]

\* for error in stats.errors[:5]: details.append(f"Index error: {error}")
IndexErrorDetails(errs) ==
    [k \in 1..Len(Take(errs, MAX_INDEX_ERROR_DETAILS)) |->
        Detail("Index error", errs[k])]

\* success = num_chunks > 0
IngestSuccess(num_indexed) == num_indexed > 0

\* index_chunks returned: the rest of ingest_documents
IngestReturn ==
    /\ ing_pc = "indexing"
    /\ ix_pc = "returned"
    /\ LET stats   == index_stats
           success == IngestSuccess(stats.num_succeeded)
       IN  /\ details' = Append(details, Detail("Indexed chunks, failures",
                                    <<stats.num_succeeded, stats.num_failed>>))
                         \o IndexErrorDetails(stats.errors)
           /\ ing_response' = IngestResponse(success, num_pdfs, stats.num_succeeded,
                 num_failures + stats.num_failed,
                 IF success THEN "Successfully ingested"
                 ELSE "Ingestion completed with errors",
                 details')
    /\ ing_pc' = "returned"
    /\ UNCHANGED <<pipeVars, chunkVars, indexVars, embedVars, servingVars,
                   force_reindex, blobs, documents, doc_idx, num_pdfs,
                   num_all_chunks, num_failures, ing_calls>>

\* the steps of a run; index_chunks is given lists of one length here, so
\* its ValueError is not among them
IngestNext ==
    \/ DeleteIndex
    \/ SkipDelete
    \/ CreateIndex
    \/ DownloadAll
    \/ ProcessDocument
    \/ ReturnNoChunks
    \/ CallEmbedTexts
    \/ EmbedTextsBegin
    \/ EmbedSubBatch
    \/ EmbedTextsReturn
    \/ EmbedTextsRaised
    \/ CallIndexChunks
    \/ IndexBegin
    \/ UploadBatch
    \/ IndexReturn
    \/ IngestReturn

SpecIngest == IngestInit /\ [][IngestNext]_vars

RECURSIVE ErrorsIn(_)
\* the entries the uploads made so far add to errors: one for a batch whose
\* upload raised, one for each failed result of a batch whose upload returned
ErrorsIn(ups) ==
    IF ups = <<>> THEN 0
    ELSE (IF ups[1].raised THEN 1 ELSE ups[1].num_failed) + ErrorsIn(Tail(ups))

\* the entries of the response's details that report an index error
ReportedIndexErrors ==
    SelectSeq(ing_response.details, LAMBDA d : d.msg = "Index error")

\* C22 as stated: the errors list index_chunks returns holds at most 5
\* entries, however many items or batches fail
C22_ReturnedErrorsCapped ==
    ix_pc = "returned" => Len(index_stats.errors) <= MAX_INDEX_ERROR_DETAILS

\* C22: the errors list index_chunks returns holds one entry for every failed
\* item and every batch whose upload raised, without a cap; the response of
\* the ingest run reports the first 5 of them, or all when there are fewer
C22_ReportedErrorsCapped ==
    /\ ix_pc = "returned" => Len(index_stats.errors) = ErrorsIn(uploads)
    /\ (ing_pc = "returned" /\ ix_pc = "returned") =>
          /\ Len(ReportedIndexErrors) <= MAX_INDEX_ERROR_DETAILS
          /\ Len(ReportedIndexErrors) =
                (IF Len(index_stats.errors) < MAX_INDEX_ERROR_DETAILS
                 THEN Len(index_stats.errors) ELSE MAX_INDEX_ERROR_DETAILS)
          /\ \A k \in 1..Len(ReportedIndexErrors) :
                ReportedIndexErrors[k].arg = index_stats.errors[k]

\* a run whose upload returned 17 failed results: index_chunks returned 17
\* errors and the response reports the first 5
C22_Witness ==
    /\ ing_pc = "returned"
    /\ ix_pc = "returned"
    /\ Len(index_stats.errors) = 17
    /\ Len(ReportedIndexErrors) = MAX_INDEX_ERROR_DETAILS
    /\ ReportedIndexErrors[MAX_INDEX_ERROR_DETAILS].arg = ItemError(4)

\* C24 as stated: in every ingest run that returns a response, success is
\* true if and only if at least one chunk was indexed
C24_SuccessIffIndexed ==
    ing_pc = "returned" =>
        (ing_response.success <=> ing_response.num_chunks_indexed > 0)

\* a document whose extraction fails, that has no extractable text, or that
\* yields no chunk
DocumentFails(doc) ==
    \/ Processed[doc].raises
    \/ ~Processed[doc].has_text
    \/ Processed[doc].num_chunks = 0

\* the failing documents among the first n
FailedDocuments(n) == Cardinality({k \in 1..n : DocumentFails(documents[k])})

\* the extract_text calls of the run
ExtractCalls == {k \in 1..Len(ing_calls) : ing_calls[k].call = "extract_text"}

\* C25: each document whose extraction fails, that has no extractable text or
\* that yields no chunk adds exactly one to the failure count and does not
\* end the run: every document after it is still processed, and the failures
\* the response reports are the failing documents plus the items that failed
\* to index
C25_DocumentFailuresCounted ==
    /\ ing_pc = "documents" =>
          /\ num_failures = FailedDocuments(doc_idx - 1)
          /\ Cardinality(ExtractCalls) = doc_idx - 1
    /\ (ing_pc \in {"embedding", "indexing"}
        \/ (ing_pc = "returned" /\ num_pdfs > 0)) =>
          /\ doc_idx = Len(documents) + 1
          /\ Cardinality(ExtractCalls) = Len(documents)
          /\ num_failures = FailedDocuments(Len(documents))
    /\ (ing_pc = "http_500" /\ ing_calls # <<>>) =>
          ing_calls[Len(ing_calls)].call \notin {"extract_text", "chunk_document"}
    /\ ing_pc = "returned" =>
          ing_response.num_failures =
              FailedDocuments(Len(documents))
              + (IF ix_pc = "returned" THEN index_stats.num_failed ELSE 0)

\* a run over a PDF that cannot be opened and the report after it: the report
\* was chunked and the response counts the broken PDF and the one item that
\* failed to index
C25_Witness ==
    /\ ing_pc = "returned"
    /\ Len(documents) = 2
    /\ documents[1].filename = "broken.pdf"
    /\ documents[2].filename = "report.pdf"
    /\ num_all_chunks = 17
    /\ index_stats.num_failed = 1
    /\ ing_response.num_failures = 2

\* the positions of the log that hold a call of the given name
IngestCallsOf(name) == {k \in 1..Len(ing_calls) : ing_calls[k].call = name}

\* the calls that read the container or work on its documents
DocumentWork ==
    {"download_all_pdfs", "extract_text", "chunk_document", "embed_texts",
     "index_chunks"}

\* C30: delete_index is called only when force_reindex is true, and then
\* first; when it fails this is recorded in details and the run goes on;
\* create_or_update_index is always called and has returned before any
\* document is downloaded, chunked, embedded or upserted; index_chunks is
\* called only after embed_texts returned, with as many embeddings as chunks
C30_IngestCallOrder ==
    /\ \A k \in IngestCallsOf("delete_index") : force_reindex /\ k = 1
    /\ \A k \in IngestCallsOf("delete_index") :
          /\ ~ing_calls[k].ok =>
                \E d \in 1..Len(details) : details[d].msg = "No existing index to delete"
          /\ Len(ing_calls) = k => ing_pc = "create"
    /\ ing_pc \notin {"start", "create"} =>
          IngestCallsOf("create_or_update_index") # {}
    /\ \A j \in 1..Len(ing_calls) :
          ing_calls[j].call \in DocumentWork =>
              \E i \in 1..(j - 1) :
                  ing_calls[i].call = "create_or_update_index" /\ ing_calls[i].ok
    /\ (em_pc # "off" \/ ix_pc # "off") =>
          \E i \in IngestCallsOf("create_or_update_index") : ing_calls[i].ok
    /\ \A j \in IngestCallsOf("index_chunks") :
          /\ j > 1
          /\ ing_calls[j - 1].call = "embed_texts"
          /\ ing_calls[j - 1].ok
          /\ ing_calls[j - 1].given = num_all_chunks
          /\ ing_calls[j - 1].gave = num_all_chunks
          /\ ing_calls[j].given = ing_calls[j].gave
    /\ ix_pc # "off" =>
          /\ em_pc = "returned"
          /\ em_count = num_all_chunks
          /\ num_embeddings = num_chunks
          /\ IngestCallsOf("index_chunks") # {}

\* a forced re-index whose delete_index failed went on to create the index
\* and to upsert the 34 chunks of two reports after three embedding calls
C30_Witness ==
    /\ force_reindex
    /\ Len(ing_calls) >= 2
    /\ ing_calls[1].call = "delete_index" /\ ~ing_calls[1].ok
    /\ ing_calls[2].call = "create_or_update_index" /\ ing_calls[2].ok
    /\ ix_pc = "returned"
    /\ num_chunks = 34
    /\ Len(em_calls) = 3
    /\ Len(uploads) = 1

----------------------------------------------------------------------------
(* answer_question under failures of its collaborators *)

\* the positions of answer_question: none of them is outside the function
\* with an exception pending
AnswerPositions ==
    {"idle", "received", "prepared", "embedded", "searched", "gated",
     "generated", "citing", "done"}

FixedMessages ==
    {OUT_OF_CONTEXT_MESSAGE, SEARCH_ERROR_MESSAGE, GENERATION_ERROR_MESSAGE}

\* C26: whichever of the rewrite, query-embedding, index-query, generation
\* and link-resolver calls fail, answer_question raises nothing and returns a
\* ChatResponse whose answer is the text the generation call returned or one
\* of the three fixed messages
C26_AlwaysAChatResponse ==
    /\ pc \in AnswerPositions
    /\ pc = "done" =>
          /\ response # NoResponse
          /\ \/ response.answer \in FixedMessages
             \/ \E i \in CallsOf("generate") :
                   calls[i].ok /\ response.answer = calls[i].reply

\* a request whose rewrite call, first embedding attempt and link resolver
\* all failed was answered with the generator's text
C26_Witness ==
    /\ pc = "done"
    /\ Raised("rewrite")
    /\ Raised("embed")
    /\ Raised("sas")
    /\ response.answer = "generated answer"
    /\ Len(response.citations) > 0

\* the place of a logged call in the chain rewrite, search, gate, generate,
\* cite
StepOf(name) ==
    CASE name = "rewrite" -> 1
      [] name \in {"search", "embed", "index_query"} -> 2
      [] name = "gate" -> 3
      [] name = "generate" -> 4
      [] name \in {"cite", "sas"} -> 5

\* C29: within one answer_question run the steps are taken in the order
\* rewrite, search, gate, generate, cite, one after the other and each at most
\* once; the index query and the generation call are issued at most once;
\* after a failed search or a failed generation no later step is run
C29_StepsInOrder ==
    /\ \A i, j \in 1..Len(calls) :
          i < j => StepOf(calls[i].call) <= StepOf(calls[j].call)
    /\ \A name \in {"rewrite", "search", "index_query", "gate", "generate", "cite"} :
          Cardinality(CallsOf(name)) <= 1
    /\ SearchRaised =>
          /\ pc = "done"
          /\ \A i \in 1..Len(calls) : StepOf(calls[i].call) <= 2
    /\ Raised("generate") =>
          /\ pc = "done"
          /\ \A i \in 1..Len(calls) : StepOf(calls[i].call) <= 4

\* a request with history went through all five steps, its embedding being
\* attempted twice
C29_Witness ==
    /\ pc = "done"
    /\ Called("rewrite")
    /\ Called("search")
    /\ Cardinality(CallsOf("embed")) = 2
    /\ Called("index_query")
    /\ Called("gate")
    /\ Called("generate")
    /\ Called("cite")
    /\ Called("sas")

----------------------------------------------------------------------------
(* the break point of one window of _chunk_text *)

MaxBreakLen == 7

\* a letter and the characters the separators are made of
BreakChars == {"a", ".", " ", "\n"}

\* every page text of MaxBreakLen characters
BreakTexts == [1..MaxBreakLen -> BreakChars]

\* the window sizes: an even and an odd chunk_size
BreakSizes == {5, 6}

\* a window of a page text is about to be cut: it starts at offset 0 or 1
BreakInit ==
    /\ chunk_size \in BreakSizes
    /\ chunk_overlap = 1
    /\ min_chunk_size = 2
    /\ \E t \in BreakTexts :
          document = [filename |-> <<"a">>, source_url |-> StoredUrl(<<"a">>),
                      pages |-> <<[page_number |-> 1, text |-> t, has_text |-> TRUE]>>]
    /\ ck_pc = "break_input"
    /\ page_idx = 1
    /\ start \in {0, 1}
    /\ text_chunks = <<>>
    /\ spans = <<>>
    /\ dropped = <<>>
    /\ all_chunks = <<>>
    /\ runs = <<>>
    /\ pc = "off"
    /\ score_threshold = SCORE_THRESHOLD
    /\ strict_grounding = TRUE
    /\ chunks = <<>>
    /\ gating_result = NoGating
    /\ PipeOff
    /\ IndexOff
    /\ EmbedOff
    /\ IngestOff
    /\ ServingOff

\* end = start + chunk_size; the choice of break_point; chunk = text[start:break_point]
CutWindow ==
    /\ ck_pc = "break_input"
    /\ LET text        == document.pages[page_idx].text
           break_point == BreakPoint(text, start, chunk_size)
       IN  /\ text_chunks' = <<SubSeq(text, start + 1, break_point)>>
           /\ spans' = <<[lo |-> start, hi |-> break_point]>>
    /\ ck_pc' = "break_output"
    /\ UNCHANGED <<embedVars, ingestVars, servingVars,
                   indexVars, pipeVars, chunkParamVars, document, page_idx, start,
                   dropped, all_chunks, runs>>

BreakNext == CutWindow

SpecBreak == BreakInit /\ [][BreakNext]_vars

\* the window text[start:end] of the page
WindowText == SubSeq(document.pages[page_idx].text, start + 1, start + chunk_size)

\* the separators, by their place in the fixed order, whose last occurrence
\* in the window lies at an offset greater than half of chunk_size
Qualifying ==
    {k \in 1..Len(Separators) : 2 * RFind(WindowText, Separators[k]) > chunk_size}

\* the window ends before the end of the text
WindowInsideText == start + chunk_size < Len(document.pages[page_idx].text)

\* C28: for a window that does not reach the end of the text the break point
\* lies just after the last occurrence of the first separator, in the order
\* double newline, newline, period-space, space, whose last occurrence in the
\* window is at an offset greater than half of chunk_size, whatever separators
\* of higher priority occur at or before the midpoint; without such a
\* separator the window is cut at chunk_size; the untrimmed chunk is longer
\* than half of chunk_size and no longer than chunk_size
C28_BreakAtFirstQualifyingSeparator ==
    (ck_pc = "break_output" /\ WindowInsideText) =>
        LET break_point == spans[1].hi
            chunk       == text_chunks[1]
        IN  /\ Separators = <<(<<"\n", "\n">>), (<<"\n">>), (<<".", " ">>), (<<" ">>)>>
            /\ IF Qualifying = {}
               THEN break_point = start + chunk_size
               ELSE LET k == Min(Qualifying)
                    IN  break_point =
                            start + RFind(WindowText, Separators[k]) + Len(Separators[k])
            /\ Len(chunk) = break_point - start
            /\ 2 * Len(chunk) > chunk_size
            /\ Len(chunk) <= chunk_size

\* a window of 6 holding a newline at offset 1, before the midpoint, and its
\* last space at offset 4 was cut just after the space
C28_Witness ==
    /\ ck_pc = "break_output"
    /\ WindowInsideText
    /\ chunk_size = 6
    /\ start = 0
    /\ RFind(WindowText, <<"\n">>) = 1
    /\ RFind(WindowText, <<" ">>) = 4
    /\ Qualifying = {4}
    /\ spans[1].hi = 5

----------------------------------------------------------------------------
(* the chat endpoint serving several requests with one RAGService *)

MaxRequests == 2

\* settings.get_blob_url(blob_name): the URL without a SAS token
BlobUrl(file) == [base |-> "blob", file |-> file, page_anchor |-> NoPage]

\* a chat request with what the external services reply to it: the rewrite
\* completion, the failed embedding attempts, whether the index query raises,
\* the records it returns, the answer completion, and whether the link
\* resolver raises
ChatInput(history, rewrite, faults, index_raises, retrieved, gen, sas_ok) ==
    [question |-> <<"a">>, conversation_history |-> history, rewrite |-> rewrite,
     embed_faults |-> faults, index_fault |-> index_raises, retrieved |-> retrieved,
     gen |-> gen, sas_ok |-> sas_ok]

NoHistory == [present |-> FALSE, msgs |-> <<>>]
OneMessage == [present |-> TRUE, msgs |-> <<[role |-> "user", content |-> <<"a">>]>>]
RewriteRaises == [raises |-> TRUE, content_none |-> FALSE, text |-> <<>>]
RewriteGives(t) == [raises |-> FALSE, content_none |-> FALSE, text |-> t]
GenRaises == [raises |-> TRUE, content_none |-> FALSE, text |-> ""]
GenGives(t) == [raises |-> FALSE, content_none |-> FALSE, text |-> t]

\* result lists that fail the gate and result lists that pass it
WeakResults == {<<>>, <<RetrievedChunk(CHOOSE r \in IndexRecords : r.chunk_id = "c1", 0)>>}
StrongResults ==
    {<<RetrievedChunk(CHOOSE r \in IndexRecords : r.chunk_id = "c1", 2)>>,
     <<RetrievedChunk(CHOOSE r \in IndexRecords : r.chunk_id = "c1", 2),
       RetrievedChunk(CHOOSE r \in IndexRecords : r.chunk_id = "c2", 1)>>,
     <<RetrievedChunk(CHOOSE r \in IndexRecords : r.chunk_id = "c3", 2),
       RetrievedChunk(CHOOSE r \in IndexRecords : r.chunk_id = "c1", 0)>>}

\* the requests served: ones whose search fails (blank rewrite, embedding
\* given up, index query raising), ones the gate refuses, ones whose
\* generation fails, and ones answered with citations
ChatInputs ==
    {ChatInput(OneMessage, RewriteGives(<<" ">>), 0, FALSE, <<>>, GenGives(""), TRUE),
     ChatInput(NoHistory, RewriteRaises, MAX_EMBED_ATTEMPTS, FALSE, <<>>, GenGives(""), TRUE),
     ChatInput(NoHistory, RewriteRaises, 1, TRUE, <<>>, GenGives(""), TRUE)} \cup
    {ChatInput(OneMessage, RewriteRaises, 0, FALSE, cs, GenGives(""), TRUE) :
        cs \in WeakResults} \cup
    {ChatInput(NoHistory, RewriteRaises, 0, FALSE, cs, GenRaises, TRUE) :
        cs \in StrongResults} \cup
    {ChatInput(h, RewriteGives(<<"a", "a">>), 2, FALSE, cs,
               GenGives("generated answer"), ok) :
        h \in {NoHistory, OneMessage}, cs \in StrongResults, ok \in BOOLEAN}

\* _get_container_client parsing the connection string only when it finds
\* the client already there
GetContainerClient_key_on_reuse(client, key) ==
    IF client = "None"
    THEN [container_client |-> "created", account_key |-> key]
    ELSE [container_client |-> client, account_key |-> "parsed"]

\* _get_container_client: creates the container client and parses the
\* account name and key when there is no client yet
GetContainerClient(client, key) ==
    IF client = "None"
    THEN [container_client |-> "created", account_key |-> "parsed"]
    ELSE [container_client |-> client, account_key |-> key]

\* generate_sas_url: if not self._account_name or not self._account_key:
\* self._get_container_client()
EnsureCredentials(client, key) ==
    IF key = "None" THEN GetContainerClient(client, key)
    ELSE [container_client |-> client, account_key |-> key]

\* the URL generate_sas_url returns: signed when the credentials are there
ResolvedUrl(file, client, key) ==
    IF EnsureCredentials(client, key).account_key = "None"
    THEN BlobUrl(file) ELSE SasUrl(file)

\* the blob handles after one generate_sas_url call: a call that raises
\* leaves them as they were
HandlesAfter(sas_ok, client, key) ==
    IF sas_ok THEN EnsureCredentials(client, key)
    ELSE [container_client |-> client, account_key |-> key]

\* the Citation of a chunk, given the blob handles the request finds
ServedCitation(chunk, sas_ok, client, key) ==
    LET base_url == ResolvedUrl(chunk.metadata.source_file, client, key)
    IN  [Citation(chunk, sas_ok) EXCEPT !.source_url =
            IF ~sas_ok THEN chunk.metadata.source_url
            ELSE IF chunk.metadata.page_number # NoPage
                 THEN [base_url EXCEPT !.page_anchor = chunk.metadata.page_number]
                 ELSE base_url]

RECURSIVE ServedCitations(_, _, _, _, _, _)
\* _build_citations from the i-th chunk on
ServedCitations(cs, i, seen_, sas_ok, client, key) ==
    IF i > Len(cs) THEN <<>>
    ELSE LET k == <<cs[i].metadata.source_file, cs[i].metadata.page_number>>
         IN  IF k \in seen_
             THEN ServedCitations(cs, i + 1, seen_, sas_ok, client, key)
             ELSE <<ServedCitation(cs[i], sas_ok, client, key)>>
                  \o ServedCitations(cs, i + 1, seen_ \cup {k}, sas_ok,
                                     HandlesAfter(sas_ok, client, key).container_client,
                                     HandlesAfter(sas_ok, client, key).account_key)

\* the query answer_question searches with
SearchQueryOf(req) ==
    IF HasHistory(req.conversation_history)
    THEN rewrite_query_with_context(req.question, req.rewrite)
    ELSE req.question

\* search() raises before it asks for the search client
EmbeddingGivesUp(req) ==
    EmbedRejects(SearchQueryOf(req)) \/ req.embed_faults >= MAX_EMBED_ATTEMPTS

\* the request gets as far as _build_citations
ReachesCitations(req) ==
    /\ ~EmbeddingGivesUp(req)
    /\ ~req.index_fault
    /\ check_retrieval_quality(req.retrieved, SCORE_THRESHOLD, TRUE).passed
    /\ ~req.gen.raises

\* answer_question(request) by a service whose BlobService holds the given
\* handles
AnswerWith(req, client, key) ==
    IF EmbeddingGivesUp(req) \/ req.index_fault
    THEN ChatResponse(SEARCH_ERROR_MESSAGE, <<>>, TRUE, 0)
    ELSE LET gating == check_retrieval_quality(req.retrieved, SCORE_THRESHOLD, TRUE)
         IN  IF ~gating.passed
             THEN ChatResponse(OUT_OF_CONTEXT_MESSAGE, <<>>, TRUE, gating.num_chunks)
             ELSE IF req.gen.raises
             THEN ChatResponse(GENERATION_ERROR_MESSAGE, <<>>, FALSE, Len(req.retrieved))
             ELSE ChatResponse(generate_response(req.gen),
                               ServedCitations(req.retrieved, 1, {}, req.sas_ok,
                                               client, key),
                               FALSE, Len(req.retrieved))

\* the process is up, no chat request was handled yet, and MaxRequests
\* requests have arrived
ServingInit ==
    /\ rag_service = "None"
    /\ search_client = "None"
    /\ container_client = "None"
    /\ account_key = "None"
    /\ \E f \in [1..MaxRequests -> ChatInputs] :
          pending = {[id |-> i, request |-> f[i]] : i \in 1..MaxRequests}
    /\ served = <<>>
    /\ pc = "off"
    /\ score_threshold = SCORE_THRESHOLD
    /\ strict_grounding = TRUE
    /\ chunks = <<>>
    /\ gating_result = NoGating
    /\ PipeOff
    /\ ChunkOff
    /\ IndexOff
    /\ EmbedOff
    /\ IngestOff

\* the coroutine chat() for one request: it awaits nothing, so the event loop
\* runs get_rag_service and answer_question to the end before it starts the
\* handler of another request
Chat ==
    \E p \in pending :
        LET req   == p.request
            creds == HandlesAfter(ReachesCitations(req) /\ req.sas_ok,
                                  container_client, account_key)
        IN  /\ rag_service' = "created"
            /\ search_client' = IF EmbeddingGivesUp(req) THEN search_client
                                ELSE "created"
            /\ container_client' = creds.container_client
            /\ account_key' = creds.account_key
            /\ served' = Append(served,
                  [id |-> p.id, request |-> req,
                   first |-> rag_service = "None",
                   response |-> AnswerWith(req, container_client, account_key)])
            /\ pending' = pending \ {p}
            /\ UNCHANGED <<pipeVars, chunkVars, indexVars, embedVars, ingestVars>>

ServingNext == Chat

SpecServing == ServingInit /\ [][ServingNext]_vars

\* C27: in whatever order the chat requests are handled by the one shared
\* RAGService, each gets the response it would get from a service that has
\* handled nothing before, given the same replies of the external services;
\* the lazily created handles are all that one request leaves to the next
C27_ResponsesAsIfAlone ==
    /\ \A k \in 1..Len(served) :
          served[k].response = AnswerWith(served[k].request, "None", "None")
    /\ served # <<>> => rag_service = "created"
    /\ account_key = "parsed" <=> container_client = "created"

\* the second of two different requests was answered, with citations, by the
\* service and blob handles the first one created
C27_Witness ==
    /\ Len(served) = 2
    /\ served[1].first /\ ~served[2].first
    /\ served[1].id = 2
    /\ served[1].request # served[2].request
    /\ Len(served[1].response.citations) > 0
    /\ Len(served[2].response.citations) = 2
    /\ served[1].request.sas_ok /\ served[2].request.sas_ok
    /\ served[2].response.citations[1].source_url.base = "sas"

====
